---------------------------- MODULE Spec2Model ----------------------------
(***************************************************************************)
(* A model of route-solver: the date-range algebra of route-solver-shared, *)
(* the price oracles of route-solver-backend/src/flight_api.rs and the     *)
(* best-first itinerary search of route-solver-backend/src/router.rs.      *)
(*                                                                         *)
(* Conventions.  A Date is a day number (an integer, one per calendar      *)
(* day).  An Option<T> is a sequence: <<>> is None and <<x>> is Some(x).   *)
(* Prices (f32 in the source) are small naturals, which f32 holds exactly. *)
(***************************************************************************)
EXTENDS Integers, Sequences, FiniteSets, Bags, TLC

\* ------------------------------------------------------------------ bounds

\* Dates of a problem are the days 1 .. MaxDate.
MaxDate == 2

\* Quoted prices are 0 .. MaxPrice.
MaxPrice == 2

\* A live get_price call sees at most MaxRateLimit consecutive rate-limit answers.
MaxRateLimit == 2

\* A live oracle instance serves at most MaxCalls get_price calls.
MaxCalls == 3

\* The ranges of the range-algebra runs lie in the days 1 .. MaxDay.
MaxDay == 4

\* min_days and max_days of those runs are 0 .. MaxGap.
MaxGap == 3

\* ------------------------------------------------------------------ Option

None == <<>>

Some(x) == <<x>>

is_some(o) == o # None

is_none(o) == o = None

unwrap(o) == o[1]

\* Mutant of or: the other option is never adopted
or_keeps_first(a, b) == a

\* Option::or
or(a, b) == IF is_some(a) THEN a ELSE b

\* Ord for Option<T>: None is below every Some, Some(x) <= Some(y) iff x <= y
OptLe(a, b) == is_none(a) \/ (is_some(b) /\ unwrap(a) <= unwrap(b))

\* Mutant of max: the lesser argument is returned
max_takes_lesser(a, b) == IF OptLe(a, b) THEN a ELSE b

\* std::cmp::max(a, b): b unless a is strictly greater
max(a, b) == IF OptLe(a, b) THEN b ELSE a

\* Mutant of min: the greater argument is returned
min_takes_greater(a, b) == IF OptLe(a, b) THEN b ELSE a

\* std::cmp::min(a, b): a unless b is strictly smaller
min(a, b) == IF OptLe(a, b) THEN a ELSE b

\* ------------------------------------------------------------------ SingleDateRange

\* enum SingleDateRange { None, FixedDate(Date), DateRange(Date, Date) }
NoneRange == [tag |-> "None", d1 |-> 0, d2 |-> 0]

FixedDate(d) == [tag |-> "FixedDate", d1 |-> d, d2 |-> d]

DateRange(a, b) == [tag |-> "DateRange", d1 |-> a, d2 |-> b]

first_date(r) == IF r.tag = "None" THEN None ELSE Some(r.d1)

last_date(r) == IF r.tag = "None" THEN None ELSE Some(r.d2)

low_high(r) == <<first_date(r), last_date(r)>>

\* FixedDate(d) becomes DateRange(d, d)
fixify(r) == IF r.tag = "None" THEN None ELSE Some(DateRange(r.d1, r.d2))

\* Mutant of intersect: the other range is ignored
intersect_keeps_self(self, other) == self

intersect(self, other) ==
    LET s_low0  == low_high(self)[1]
        s_high0 == low_high(self)[2]
        o_low0  == low_high(other)[1]
        o_high0 == low_high(other)[2]
        s_maybe_low  == or(s_low0, o_low0)
        o_maybe_low  == or(o_low0, s_maybe_low)
        s_maybe_high == or(s_high0, o_high0)
        o_maybe_high == or(o_high0, s_maybe_high)
        lowest_date == max(s_maybe_low, o_maybe_low)
        high_date   == min(s_maybe_high, o_maybe_high)
    IN  IF \E f \in {s_maybe_low, s_maybe_high, o_maybe_low, o_maybe_high} : is_none(f)
        THEN NoneRange
        ELSE IF unwrap(lowest_date) > unwrap(high_date)
        THEN NoneRange
        ELSE IF lowest_date = high_date
        THEN FixedDate(unwrap(lowest_date))
        ELSE DateRange(unwrap(lowest_date), unwrap(high_date))

\* Mutant of truncate: the given date itself is kept
truncate_keeps_date(self, date) ==
    CASE self.tag = "FixedDate" ->
            IF self.d1 >= date THEN FixedDate(self.d1) ELSE NoneRange
      [] self.tag = "DateRange" ->
            IF self.d2 >= date
            THEN DateRange(unwrap(max(Some(self.d1), Some(date))), self.d2)
            ELSE NoneRange
      [] OTHER -> NoneRange

truncate(self, date) ==
    CASE self.tag = "FixedDate" ->
            IF self.d1 > date THEN FixedDate(self.d1) ELSE NoneRange
      [] self.tag = "DateRange" ->
            IF self.d2 > date
            THEN DateRange(unwrap(max(Some(self.d1), Some(date + 1))), self.d2)
            ELSE NoneRange
      [] OTHER -> NoneRange

\* ------------------------------------------------------------------ DateRestrictions

\* struct DateRestrictions { min_days: Option<Duration>, max_days: Option<Duration> }
DateRestrictions(mn, mx) == [min_days |-> mn, max_days |-> mx]

DefaultRestrictions == DateRestrictions(None, None)

within_constraints(self, prev_date, curr_date) ==
    LET dur == curr_date - prev_date
        min_met == IF is_some(self.min_days) THEN dur >= unwrap(self.min_days) ELSE TRUE
        max_met == IF is_some(self.max_days) THEN dur <= unwrap(self.max_days) ELSE TRUE
    IN  min_met /\ max_met

\* ------------------------------------------------------------------ SingleDateRangeIter

\* NaiveDate::MIN, the curr_date of an iterator over SingleDateRange::None
NaiveDateMIN == -1

\* Mutant of iter_partial: the iterator starts at the range's first date,
\* whatever src_date and min_days are
iter_partial_no_floor(self, restrictions, src_date) ==
    [date_range   |-> self,
     src_date     |-> src_date,
     curr_date    |-> IF self.tag = "None" THEN NaiveDateMIN ELSE self.d1,
     day_count    |-> 0,
     restrictions |-> restrictions]

iter_partial(self, restrictions, src_date) ==
    LET floor == IF is_some(src_date)
                 THEN Some(unwrap(src_date) +
                           (IF is_some(restrictions.min_days)
                            THEN unwrap(restrictions.min_days) ELSE 0))
                 ELSE None
        start_date == max(floor, first_date(self))
    IN  [date_range   |-> self,
         src_date     |-> src_date,
         curr_date    |-> IF self.tag = "None" THEN NaiveDateMIN ELSE unwrap(start_date),
         day_count    |-> 0,
         restrictions |-> restrictions]

iter(self, restrictions) == iter_partial(self, restrictions, first_date(self))

\* Mutant of next: the end date itself is not yielded
next_exclusive_end(it) ==
    LET fixed == fixify(it.date_range)
        end_date == unwrap(fixed).d2
        max_hit == IF is_some(it.restrictions.max_days) /\ is_some(it.src_date)
                   THEN unwrap(it.restrictions.max_days)
                            <= it.curr_date - unwrap(it.src_date)
                   ELSE FALSE
    IN  IF is_none(fixed) THEN <<None, it>>
        ELSE IF max_hit THEN <<None, it>>
        ELSE IF it.curr_date >= end_date THEN <<None, it>>
        ELSE <<Some(it.curr_date), [it EXCEPT !.curr_date = it.curr_date + 1]>>

\* Mutant of next: the date max_days after src_date is still yielded
next_max_inclusive(it) ==
    LET fixed == fixify(it.date_range)
        end_date == unwrap(fixed).d2
        max_hit == IF is_some(it.restrictions.max_days) /\ is_some(it.src_date)
                   THEN unwrap(it.restrictions.max_days)
                            < it.curr_date - unwrap(it.src_date)
                   ELSE FALSE
    IN  IF is_none(fixed) THEN <<None, it>>
        ELSE IF max_hit THEN <<None, it>>
        ELSE IF it.curr_date > end_date THEN <<None, it>>
        ELSE <<Some(it.curr_date), [it EXCEPT !.curr_date = it.curr_date + 1]>>

\* Iterator::next: <<the item, the iterator afterwards>>
next(it) ==
    LET fixed == fixify(it.date_range)
        end_date == unwrap(fixed).d2
        max_hit == IF is_some(it.restrictions.max_days) /\ is_some(it.src_date)
                   THEN unwrap(it.restrictions.max_days)
                            <= it.curr_date - unwrap(it.src_date)
                   ELSE FALSE
    IN  IF is_none(fixed) THEN <<None, it>>
        ELSE IF max_hit THEN <<None, it>>
        ELSE IF it.curr_date > end_date THEN <<None, it>>
        ELSE <<Some(it.curr_date), [it EXCEPT !.curr_date = it.curr_date + 1]>>

\* The items of a for loop over the iterator: next until the first None
RECURSIVE collect(_)
collect(it) ==
    LET r == next(it)
    IN  IF is_none(r[1]) THEN <<>> ELSE <<unwrap(r[1])>> \o collect(r[2])

\* ------------------------------------------------------------------ DateConstraints

\* struct DateConstraints { date_range: Option<DateRange>, date_restrictions };
\* a DateRange is the pair <<inbound window, outbound window>>
DateConstraints(date_range, date_restrictions) ==
    [date_range |-> date_range, date_restrictions |-> date_restrictions]

\* The match of get_intersect_iter_with_next: Some(sdr_intersect), or None
\* where the (None, None) arm panics
sdr_intersect(self, nxt) ==
    CASE is_some(self.date_range) /\ is_some(nxt.date_range)
             -> Some(intersect(unwrap(self.date_range)[2], unwrap(nxt.date_range)[1]))
      [] is_some(self.date_range) /\ is_none(nxt.date_range)
             -> Some(unwrap(self.date_range)[2])
      [] is_none(self.date_range) /\ is_some(nxt.date_range)
             -> Some(unwrap(nxt.date_range)[1])
      [] OTHER -> None

\* Mutant of get_intersect_iter_with_next: the iterator runs under the day-gap
\* restrictions of nxt
get_intersect_iter_next_restrictions(self, nxt, src_date) ==
    LET w == sdr_intersect(self, nxt)
    IN  IF is_none(w) THEN None
        ELSE Some(iter_partial(unwrap(w), nxt.date_restrictions, src_date))

\* DateConstraints::get_intersect_iter_with_next: Some(the iterator), or None
\* for the panic
get_intersect_iter_with_next(self, nxt, src_date) ==
    LET w == sdr_intersect(self, nxt)
    IN  IF is_none(w) THEN None
        ELSE Some(iter_partial(unwrap(w), self.date_restrictions, src_date))

\* ------------------------------------------------------------------ problem data

\* IATA codes of the modelled problems
Codes == {"AAA", "BBB", "CCC"}

\* A destination list holds 0 .. MaxInter intermediate stops: as many as can
\* have codes that differ from each other and from the origin's
MaxInter == Cardinality(Codes) - 1

Idx(c) == CASE c = "AAA" -> 0 [] c = "BBB" -> 1 [] OTHER -> 2

Dates == 1 .. MaxDate

\* struct Flight { src, dest, date }
Flight(s, d, t) == [src |-> s, dest |-> d, date |-> t]

\* struct Destination { iata, dates }, dates being DateRange(inbound, outbound)
Destination(c, in, out) == [iata |-> c, dates |-> <<in, out>>]

\* The windows of the modelled problems: no constraint, one day of Dates, or
\* two consecutive days of Dates
Ranges ==
    {NoneRange} \cup {FixedDate(d) : d \in Dates}
                \cup {DateRange(d, d + 1) : d \in 1 .. MaxDate - 1}

\* sequences over S of length 0 .. n
RECURSIVE SeqsUpTo(_, _)
SeqsUpTo(S, n) ==
    IF n = 0 THEN {<<>>}
    ELSE LET shorter == SeqsUpTo(S, n - 1)
         IN  shorter \cup {Append(q, x) : q \in {r \in shorter : Len(r) = n - 1}, x \in S}

\* Destination lists: the origin anchor "AAA" leaving in window ro, then up to
\* MaxInter intermediates each arriving and leaving in window ri, then the
\* final anchor arriving in window ro.  Codes may repeat.
DestLists ==
    {<<Destination("AAA", NoneRange, ro)>>
        \o [i \in 1 .. Len(mid) |-> Destination(mid[i], ri, ri)]
        \o <<Destination(fin, ro, NoneRange)>> :
        ro \in Ranges, ri \in Ranges, mid \in SeqsUpTo(Codes, MaxInter), fin \in Codes}

\* Fixture price tables (the HashMap of TestPriceApiQuery): the flights between
\* Codes on the days 1 .. ndays, priced by route (weight a) and by day (weight c).
PriceTable(a, c, ndays) ==
    [f \in {Flight(s, d, t) : s \in Codes, d \in Codes, t \in 1 .. ndays} |->
        (a * (Idx(f.src) + 2 * Idx(f.dest)) + c * f.date) % (MaxPrice + 1)]

\* A table without the flights of one route
WithoutRoute(table, s, d) ==
    [f \in {g \in DOMAIN table : g.src # s \/ g.dest # d} |-> table[f]]

\* Tables of every route weight, flat or rising by day, that hold every day of
\* Dates, tables that lack the last day, and tables that lack one route
PriceTables ==
    {PriceTable(a, c, MaxDate) : a \in 0 .. MaxPrice, c \in {0, 1}}
        \cup {PriceTable(a, 1, MaxDate - 1) : a \in 0 .. MaxPrice}
        \cup {WithoutRoute(PriceTable(a, 0, MaxDate), "BBB", "CCC") : a \in 0 .. MaxPrice}

\* The DateRestrictions instance a problem's destinations share
RestrictionChoices == {DefaultRestrictions, DateRestrictions(Some(1), Some(1))}

\* ------------------------------------------------------------------ state

VARIABLES
    dest_list,    \* RouterProblem.dest_list
    date_restrictions, \* the DateRestrictions shared by the destinations
    data,         \* TestPriceApiQuery.data
    main_queue,   \* the frontier, a bag of FlightNode (each holds its ancestor chain)
    top,          \* what main_queue.pop() returned in the latest turn of the loop
    pending,      \* expand_node over the live oracle: the candidates its loops have
                  \* still to price, the one being priced first
    stats,        \* RouterStats
    get_price_calls, \* the get_price invocations the solve has made so far
    search_res,   \* what perform_graph_search returned: None until it returns
    oracle_err,   \* the QueryError a get_price call of the solve returned, if any
    pc,           \* calc: "search", "expand" (inside expand_node over the live
                  \* oracle), "done" (returned) or "panic"
    result,       \* RouterResult.result
    db,           \* SkyScannerApiQuery.db
    o_pc,         \* live get_price: "idle", "awaiting" (a request is out) or "panic"
    o_flight,     \* the Flight of the live get_price call in progress or last made
    o_sent,       \* the requests that call has sent so far
    o_answers,    \* the answers that call has received so far
    o_ret,        \* what the last live get_price call returned, if any has
    ext_requests, \* per Flight: the external requests sent over all calls
    ext_queries,  \* per Flight: the calls that went to the external service
    quoted,       \* per Flight priced so far: the first Quote returned and the
                  \* external requests sent for it until then
    n_calls,      \* the live get_price calls made so far
    last_call,    \* the last call of intersect, truncate or the fixture get_price:
                  \* its name, arguments and return value
    it_args,      \* the call that made the iterator: range, restrictions, src_date
    it,           \* Option<SingleDateRangeIter>: the iterator, once made
    yielded,      \* what the calls of next on it returned so far, in order
    html_list,    \* ItineraryList.html_list: per row the key of its Html and its flag
    curr_count,   \* ItineraryList.curr_count
    list_item_vals, \* ItineraryList.list_item_vals
    l_pc,         \* ItineraryList::update: "idle" or "panic"
    msg           \* the ItineraryListMessage update handled last; for SendPost
                  \* with the text it formatted

svars == <<dest_list, date_restrictions, data, main_queue, top, pending, stats, get_price_calls,
           search_res, oracle_err, pc, result>>

ovars == <<db, o_pc, o_flight, o_sent, o_answers, o_ret, ext_requests, ext_queries,
           quoted, n_calls>>

dvars == <<last_call, it_args, it, yielded>>

lvars == <<html_list, curr_count, list_item_vals, l_pc, msg>>

vars == <<svars, ovars, dvars, lvars>>

\* ------------------------------------------------------------------ price oracle (fixture)

\* Result<Quote, QueryError> of TestPriceApiQuery::get_price: a miss is NonExistentLeg
\* Mutant of TestPriceApiQuery_get_price: a miss is answered with price 0
get_price_default_on_miss(table, flight) ==
    [ok |-> TRUE, min_price |-> IF flight \in DOMAIN table THEN table[flight] ELSE 0,
     err |-> ""]

TestPriceApiQuery_get_price(table, flight) ==
    IF flight \in DOMAIN table
    THEN [ok |-> TRUE, min_price |-> table[flight], err |-> ""]
    ELSE [ok |-> FALSE, min_price |-> 0, err |-> "NonExistentLeg"]

\* ------------------------------------------------------------------ price oracle (live)

\* The Flights asked of the modelled live oracle
OFlights == {Flight("AAA", "BBB", 1), Flight("BBB", "AAA", 2)}

\* struct Quote { min_price, direct }
Quote(p, direct) == [min_price |-> p, direct |-> direct]

Ok(v) == [ok |-> TRUE, val |-> v, err |-> ""]

Err(e) == [ok |-> FALSE, val |-> <<>>, err |-> e]

\* One entry of the quotes object of a response: amount is None when
\* minPrice.amount is no string holding a number, isDirect is None when it is
\* no bool
QuoteJsons ==
    {[amount |-> Some(p), isDirect |-> Some(b)] : p \in 1 .. MaxPrice, b \in BOOLEAN}
        \cup {[amount |-> None, isDirect |-> Some(TRUE)]}

\* What the external service may answer to one request: a transport failure,
\* a status (429, another error status, or success) and for a success a body:
\* no JSON, JSON whose quotes section is no object, or the entries of the
\* quotes object in key order
ExtAnswers ==
    {[kind |-> k, quotes |-> <<>>] :
        k \in {"Transport", "TooManyRequests", "BadStatus", "BadJson", "BadShape"}}
        \cup {[kind |-> "Ok", quotes |-> q] : q \in SeqsUpTo(QuoteJsons, 2)}

skyscanner_quote_to_price(val) ==
    IF is_none(val.amount)
    THEN Err("ResponseUnexpectedFormatErr")
    ELSE IF is_none(val.isDirect)
    THEN Err("ResponseUnexpectedFormatErr")
    ELSE Ok(Quote(unwrap(val.amount), unwrap(val.isDirect)))

get_indicative_price(ans) ==
    CASE ans.kind = "Transport"       -> Err("ReqwestErr")
      [] ans.kind = "TooManyRequests" -> Err("RateLimitExceeded")
      [] ans.kind = "BadStatus"       -> Err("BadResponse")
      [] ans.kind = "BadJson"         -> Err("ResponseConversionErr")
      [] OTHER                        -> Ok(ans)

\* Iterator::collect into Result<Vec<Quote>, QueryError>: the first error, or
\* every quote
RECURSIVE collect_quotes(_)
collect_quotes(vals) ==
    IF vals = <<>> THEN Ok(<<>>)
    ELSE LET head == skyscanner_quote_to_price(Head(vals))
             rest == collect_quotes(Tail(vals))
         IN  IF ~head.ok THEN head
             ELSE IF ~rest.ok THEN rest
             ELSE Ok(<<head.val>> \o rest.val)

get_indicative_prices_simplified(ans) ==
    LET prices_resp == get_indicative_price(ans)
    IN  IF ~prices_resp.ok THEN prices_resp
        ELSE IF prices_resp.val.kind = "BadShape"
        THEN Err("ResponseUnexpectedFormatErr")
        ELSE collect_quotes(prices_resp.val.quotes)

\* The match of get_indicative_prices_simplified_retry: TRUE to sleep and send
\* the request again, FALSE to break with this response
\* Mutant of retry_again: the loop breaks with every response
retry_never(this_resp) == FALSE

\* Mutant of retry_again: every error response is retried
retry_on_any_error(this_resp) == ~this_resp.ok

retry_again(this_resp) == ~this_resp.ok /\ this_resp.err = "RateLimitExceeded"

\* Mutant of db_get: the lookup always misses
db_get_always_miss(map, flight) == None

\* HashMap::get
db_get(map, flight) == IF flight \in DOMAIN map THEN Some(map[flight]) ELSE None

\* HashMap::insert
db_insert(map, flight, quote) ==
    [f \in DOMAIN map \cup {flight} |-> IF f = flight THEN quote ELSE map[f]]

\* The end of SkyScannerApiQuery::get_price once the retry loop broke with
\* resp: the ? operator, the index [0] and the insert
\* <<the panic flag, the value returned, db afterwards>>
\* Mutant of get_price_finish: a failed query is cached as a free Quote
get_price_finish_caches_failure(map, flight, resp) ==
    IF ~resp.ok THEN <<FALSE, Err(resp.err), db_insert(map, flight, Quote(0, FALSE))>>
    ELSE IF Len(resp.val) = 0 THEN <<TRUE, None, map>>
    ELSE <<FALSE, Ok(resp.val[1]), db_insert(map, flight, resp.val[1])>>

get_price_finish(map, flight, resp) ==
    IF ~resp.ok THEN <<FALSE, Err(resp.err), map>>
    ELSE IF Len(resp.val) = 0 THEN <<TRUE, None, map>>
    ELSE <<FALSE, Ok(resp.val[1]), db_insert(map, flight, resp.val[1])>>

\* The sleep of the retry loop before it sends the request again, in ms
BackoffMillis == 250

\* One external request of a get_price call: the Flight asked and the sleep
\* that preceded the send
Request(flight, delay) == [flight |-> flight, delay |-> delay]

Bump(counts, flight) == [counts EXCEPT ![flight] = @ + 1]

\* ------------------------------------------------------------------ router

\* The number of values of a u16
U16Range == 65536

\* RouterStats::new
NewStats == [api_calls |-> 0, enabled |-> TRUE]

\* RouterStats { api_calls: 0, enabled: false }: statistics switched off
DisabledStats == [NewStats EXCEPT !.enabled = FALSE]

\* Mutant of record_call: the call is counted whether or not statistics are
\* enabled
record_call_always(st, n) == [st EXCEPT !.api_calls = st.api_calls + n]

\* RouterStats::record_call, n times; api_calls is a u16
record_call(st, n) ==
    IF st.enabled THEN [st EXCEPT !.api_calls = (st.api_calls + n) % U16Range] ELSE st

\* struct FlightNode; prev is None or Some(the parent node), shared and immutable
FlightNode(flight, price, back_price, prev, dest_ref) ==
    [flight |-> flight, price |-> price, back_price |-> back_price,
     prev |-> prev, dest_ref |-> dest_ref]

\* The seed of the frontier: a zero-cost placeholder ending at the origin anchor
\* Mutant of Sentinel: the seed starts at a cumulative price of 1
Sentinel_costs_one(src) ==
    FlightNode(Flight("", src.iata, 0), Some(0), Some(1), None, src)

Sentinel(src) ==
    FlightNode(Flight("", src.iata, 0), Some(0), Some(0), None, src)

\* backtrace_node: the ancestor chain of a node, oldest first, the node last
\* Mutant of backtrace_node: the node is pushed before its ancestors, the chain
\* comes out goal first
RECURSIVE backtrace_node_goal_first(_)
backtrace_node_goal_first(final_node) ==
    <<final_node>>
        \o (IF is_some(final_node.prev)
            THEN backtrace_node_goal_first(unwrap(final_node.prev)) ELSE <<>>)

RECURSIVE backtrace_node(_)
backtrace_node(final_node) ==
    (IF is_some(final_node.prev) THEN backtrace_node(unwrap(final_node.prev)) ELSE <<>>)
        \o <<final_node>>

\* The filter predicate of fill_dest_list: TRUE when e is kept, FALSE when its
\* code is the current node's destination or that of one of its ancestors
\* Mutant of filter_pred: only the popped node's own leg is compared, its
\* ancestors are not walked
filter_pred_no_walk(curr_node, e) == curr_node.flight.dest # e.iata

\* Mutant of filter_pred: the walk stops before the sentinel, the origin's
\* code is not compared
RECURSIVE filter_pred_not_sentinel(_, _)
filter_pred_not_sentinel(curr_node, e) ==
    IF is_none(curr_node.prev) THEN TRUE
    ELSE IF curr_node.flight.dest = e.iata THEN FALSE
    ELSE filter_pred_not_sentinel(unwrap(curr_node.prev), e)

RECURSIVE filter_pred(_, _)
filter_pred(curr_node, e) ==
    IF curr_node.flight.dest = e.iata THEN FALSE
    ELSE IF is_some(curr_node.prev) THEN filter_pred(unwrap(curr_node.prev), e)
    ELSE TRUE

RECURSIVE filter_map(_, _)
filter_map(curr_node, list) ==
    IF list = <<>> THEN <<>>
    ELSE (IF filter_pred(curr_node, Head(list)) THEN <<Head(list)>> ELSE <<>>)
             \o filter_map(curr_node, Tail(list))

\* Mutant of fill_dest_list: the final destination is offered on every
\* expansion, not only once no intermediate is left
fill_dest_list_always_final(curr_node, final, init_list) ==
    filter_map(curr_node, init_list) \o <<final>>

fill_dest_list(curr_node, final, init_list) ==
    LET kept == filter_map(curr_node, init_list)
    IN  IF Len(kept) = 0 THEN <<final>> ELSE kept

\* The dates expand_node enumerates for one candidate: the iterator over the
\* intersection of its inbound window and the popped node's outbound window
\* (the call passes no day-gap restrictions and no source date)
possible_dates(next_dest, src) ==
    collect(iter(intersect(next_dest.dates[1], src.dest_ref.dates[2]), DefaultRestrictions))

\* The candidate flights of expand_node in loop order, each with its Destination
RECURSIVE candidates(_, _)
candidates(src, remaining_dests) ==
    IF remaining_dests = <<>> THEN <<>>
    ELSE LET next_dest == Head(remaining_dests)
             ds == possible_dates(next_dest, src)
         IN  [k \in 1 .. Len(ds) |->
                 [flight |-> Flight(src.flight.dest, next_dest.iata, ds[k]),
                  dest_ref |-> next_dest]]
             \o candidates(src, Tail(remaining_dests))

\* How many candidates are priced before the first oracle error (all, if none errs)
RECURSIVE priced_prefix(_, _)
priced_prefix(table, cands) ==
    IF cands = <<>> \/ ~TestPriceApiQuery_get_price(table, Head(cands).flight).ok THEN 0
    ELSE 1 + priced_prefix(table, Tail(cands))

\* The child expand_node builds for a priced candidate
\* Mutant of child: back_price is the leg's own price, the parent's cumulative
\* price is not added
child_not_cumulative(table, src, cand) ==
    LET price_query == TestPriceApiQuery_get_price(table, cand.flight).min_price
    IN  FlightNode(cand.flight, Some(price_query), Some(price_query),
                   Some(src), cand.dest_ref)

\* Mutant of child: the node is pushed before its leg is priced, price is None
child_leg_unpriced(table, src, cand) ==
    LET price_query == TestPriceApiQuery_get_price(table, cand.flight).min_price
    IN  FlightNode(cand.flight, None,
                   Some(unwrap(src.back_price) + price_query),
                   Some(src), cand.dest_ref)

\* Mutant of child: the leg's price is taken off the parent's cumulative price
child_price_subtracted(table, src, cand) ==
    LET price_query == TestPriceApiQuery_get_price(table, cand.flight).min_price
    IN  FlightNode(cand.flight, Some(price_query),
                   Some(unwrap(src.back_price) - price_query),
                   Some(src), cand.dest_ref)

child(table, src, cand) ==
    LET price_query == TestPriceApiQuery_get_price(table, cand.flight).min_price
    IN  FlightNode(cand.flight, Some(price_query),
                   Some(unwrap(src.back_price) + price_query),
                   Some(src), cand.dest_ref)

\* BinaryHeap::push of the first n children, in order
RECURSIVE push_all(_, _, _, _, _)
push_all(queue, table, src, cands, n) ==
    IF n = 0 THEN queue
    ELSE push_all(queue, table, src, cands, n - 1) (+) SetToBag({child(table, src, cands[n])})

\* Ord for FlightNode: cmp(a, b) is Greater or Equal, i.e. a's cumulative price
\* is not above b's
\* Mutant of cmp_ge: the comparison is not inverted, the heap pops the most
\* expensive node
cmp_ge_not_inverted(a, b) == unwrap(a.back_price) >= unwrap(b.back_price)

\* Mutant of cmp_ge: the price of the node's own leg is compared, not the
\* cumulative price
cmp_ge_by_leg_price(a, b) == unwrap(a.price) <= unwrap(b.price)

\* Mutant of cmp_ge: every comparison is Equal, any entry of the heap may be
\* popped
cmp_ge_unordered(a, b) == TRUE

cmp_ge(a, b) == unwrap(a.back_price) <= unwrap(b.back_price)

\* What BinaryHeap::pop may return: a greatest element under Ord
heap_top(queue) == {n \in BagToSet(queue) : \A m \in BagToSet(queue) : cmp_ge(n, m)}

\* The goal test of perform_graph_search
\* Mutant of is_goal: the parent is not asked for, the sentinel of a round
\* trip is taken as the goal
is_goal_accepts_sentinel(top_n, final) == top_n.flight.dest = final.iata

\* Mutant of is_goal: no popped node is taken as the goal
is_goal_never(top_n, final) == FALSE

is_goal(top_n, final) == top_n.flight.dest = final.iata /\ is_some(top_n.prev)

\* calc: the chain without its first node, as FlightPrice values
calc_result(list_flights) ==
    [k \in 1 .. Len(list_flights) - 1 |->
        [flight |-> list_flights[k + 1].flight, price |-> unwrap(list_flights[k + 1].price)]]

RECURSIVE fold_prices(_)
fold_prices(fps) == IF fps = <<>> THEN 0 ELSE Head(fps).price + fold_prices(Tail(fps))

\* RouterResult::total_price
total_price(res) == fold_prices(res)

src_anchor == dest_list[1]

final_dest == dest_list[Len(dest_list)]

init_dest_list == SubSeq(dest_list, 2, Len(dest_list) - 1)

\* ------------------------------------------------------------------ the solve

\* ItineraryList::create: no row, no message handled
NoList ==
    /\ html_list = <<>>
    /\ curr_count = 0
    /\ list_item_vals = <<>>
    /\ l_pc = "idle"
    /\ msg = None

\* No range operation called, no iterator made
NoCall ==
    /\ last_call = None
    /\ it_args = None
    /\ it = None
    /\ yielded = <<>>

\* SkyScannerApiQuery::new, no call made yet
OracleIdle ==
    /\ db = <<>>
    /\ o_pc = "idle"
    /\ o_flight = None
    /\ o_sent = <<>>
    /\ o_answers = <<>>
    /\ o_ret = None
    /\ ext_requests = [f \in OFlights |-> 0]
    /\ ext_queries = [f \in OFlights |-> 0]
    /\ quoted = <<>>
    /\ n_calls = 0

\* Router::new, a problem and its price table, and perform_graph_search up to its loop
Init ==
    /\ dest_list \in DestLists
    /\ date_restrictions \in RestrictionChoices
    /\ data \in PriceTables
    /\ main_queue = SetToBag({Sentinel(dest_list[1])})
    /\ top = None
    /\ pending = <<>>
    /\ stats \in {NewStats, DisabledStats}
    /\ get_price_calls = 0
    /\ search_res = None
    /\ oracle_err = None
    /\ pc = "search"
    /\ result = <<>>
    /\ OracleIdle
    /\ NoCall
    /\ NoList

\* main_queue.pop() is None: the search returns Err and calc's unwrap panics
PopEmpty ==
    /\ pc = "search"
    /\ main_queue = EmptyBag
    /\ top' = None
    /\ search_res' = Some([ok |-> FALSE, err |-> "Itinerary cannot solve, adjust parameters"])
    /\ pc' = "panic"
    /\ UNCHANGED <<dest_list, date_restrictions, data, main_queue, pending, stats,
                   get_price_calls, oracle_err, result>>
    /\ UNCHANGED <<ovars, dvars, lvars>>

\* The popped node is the goal: backtrace, and calc returns the itinerary
PopGoal ==
    /\ pc = "search"
    /\ \E top_n \in heap_top(main_queue) :
        /\ is_goal(top_n, final_dest)
        /\ main_queue' = main_queue (-) SetToBag({top_n})
        /\ top' = Some(top_n)
        /\ search_res' = Some([ok |-> TRUE, err |-> ""])
        /\ result' = calc_result(backtrace_node(top_n))
        /\ pc' = "done"
    /\ UNCHANGED <<dest_list, date_restrictions, data, pending, stats, get_price_calls,
                   oracle_err>>
    /\ UNCHANGED <<ovars, dvars, lvars>>

\* The popped node is expanded: its children are priced and pushed in loop
\* order; the first oracle error panics in expand_node's unwrap
PopExpand ==
    /\ pc = "search"
    /\ \E top_n \in heap_top(main_queue) :
        /\ ~is_goal(top_n, final_dest)
        /\ top' = Some(top_n)
        /\ LET dl == fill_dest_list(top_n, final_dest, init_dest_list)
               cands == candidates(top_n, dl)
               n == priced_prefix(data, cands)
           IN  /\ main_queue' = push_all(main_queue (-) SetToBag({top_n}), data, top_n, cands, n)
               /\ stats' = record_call(stats, n)
               /\ IF n < Len(cands)
                  THEN /\ oracle_err' = Some(TestPriceApiQuery_get_price(data, cands[n + 1].flight).err)
                       /\ get_price_calls' = get_price_calls + n + 1
                       /\ pc' = "panic"
                  ELSE /\ get_price_calls' = get_price_calls + n
                       /\ UNCHANGED <<oracle_err, pc>>
    /\ UNCHANGED <<dest_list, date_restrictions, data, pending, search_res, result>>
    /\ UNCHANGED <<ovars, dvars, lvars>>

Next == PopEmpty \/ PopGoal \/ PopExpand

Spec == Init /\ [][Next]_vars

\* ------------------------------------------------------------------ the fixture oracle

\* The Flights asked of the fixture oracle: every route on every day of Dates
\* and on the day after
FixtureFlights == {Flight(s, d, t) : s \in Codes, d \in Codes, t \in 1 .. MaxDate + 1}

\* TestPriceApiQuery::new: a fixture oracle on its own, no solve is running
FixtureInit ==
    /\ dest_list = <<>>
    /\ date_restrictions = DefaultRestrictions
    /\ data \in PriceTables
    /\ main_queue = EmptyBag
    /\ top = None
    /\ pending = <<>>
    /\ stats = NewStats
    /\ get_price_calls = 0
    /\ search_res = None
    /\ oracle_err = None
    /\ pc = "idle"
    /\ result = <<>>
    /\ OracleIdle
    /\ NoCall
    /\ NoList

\* TestPriceApiQuery::get_price(flight)
FixtureGetPrice(flight) ==
    /\ last_call' = Some([op |-> "get_price", flight |-> flight,
                          ret |-> TestPriceApiQuery_get_price(data, flight)])
    /\ UNCHANGED <<it_args, it, yielded>>
    /\ UNCHANGED <<svars, ovars, lvars>>

FixtureNext == \E flight \in FixtureFlights : FixtureGetPrice(flight)

FixtureSpec == FixtureInit /\ [][FixtureNext]_vars

\* ------------------------------------------------------------------ the live oracle

\* A live oracle on its own: no solve is running
NoSolve ==
    /\ dest_list = <<>>
    /\ date_restrictions = DefaultRestrictions
    /\ data = <<>>
    /\ main_queue = EmptyBag
    /\ top = None
    /\ pending = <<>>
    /\ stats = NewStats
    /\ get_price_calls = 0
    /\ search_res = None
    /\ oracle_err = None
    /\ pc = "idle"
    /\ result = <<>>

OracleInit == NoSolve /\ OracleIdle /\ NoCall /\ NoList

\* get_price(flight) finds the Flight in db and returns the stored Quote
CallHit(flight) ==
    /\ o_pc = "idle"
    /\ n_calls < MaxCalls
    /\ is_some(db_get(db, flight))
    /\ n_calls' = n_calls + 1
    /\ o_flight' = Some(flight)
    /\ o_sent' = <<>>
    /\ o_answers' = <<>>
    /\ o_ret' = Some(Ok(unwrap(db_get(db, flight))))
    /\ UNCHANGED <<db, o_pc, ext_requests, ext_queries, quoted>>
    /\ UNCHANGED <<svars, dvars, lvars>>

\* get_price(flight) misses db, enters the retry loop and sends the request
CallMiss(flight) ==
    /\ o_pc = "idle"
    /\ n_calls < MaxCalls
    /\ is_none(db_get(db, flight))
    /\ n_calls' = n_calls + 1
    /\ o_flight' = Some(flight)
    /\ o_sent' = <<Request(flight, 0)>>
    /\ o_answers' = <<>>
    /\ o_pc' = "awaiting"
    /\ ext_requests' = Bump(ext_requests, flight)
    /\ ext_queries' = Bump(ext_queries, flight)
    /\ UNCHANGED <<db, o_ret, quoted>>
    /\ UNCHANGED <<svars, dvars, lvars>>

\* The request is answered and the retry loop sleeps and sends it again
AnswerRetry(ans) ==
    /\ o_pc = "awaiting"
    /\ Len(o_answers) < MaxRateLimit
    /\ retry_again(get_indicative_prices_simplified(ans))
    /\ o_answers' = Append(o_answers, ans)
    /\ o_sent' = Append(o_sent, Request(unwrap(o_flight), BackoffMillis))
    /\ ext_requests' = Bump(ext_requests, unwrap(o_flight))
    /\ UNCHANGED <<db, o_pc, o_flight, o_ret, ext_queries, quoted, n_calls>>
    /\ UNCHANGED <<svars, dvars, lvars>>

\* The request is answered, the retry loop breaks and get_price ends
AnswerBreak(ans) ==
    /\ o_pc = "awaiting"
    /\ ~retry_again(get_indicative_prices_simplified(ans))
    /\ LET flight == unwrap(o_flight)
           fin == get_price_finish(db, flight, get_indicative_prices_simplified(ans))
       IN  /\ o_answers' = Append(o_answers, ans)
           /\ o_pc' = IF fin[1] THEN "panic" ELSE "idle"
           /\ o_ret' = IF fin[1] THEN o_ret ELSE Some(fin[2])
           /\ db' = fin[3]
           /\ quoted' = IF ~fin[1] /\ fin[2].ok /\ flight \notin DOMAIN quoted
                        THEN [f \in DOMAIN quoted \cup {flight} |->
                                 IF f = flight
                                 THEN [quote |-> fin[2].val, requests |-> ext_requests[flight]]
                                 ELSE quoted[f]]
                        ELSE quoted
    /\ UNCHANGED <<o_flight, o_sent, ext_requests, ext_queries, n_calls>>
    /\ UNCHANGED <<svars, dvars, lvars>>

OracleNext ==
    \/ \E flight \in OFlights : CallHit(flight) \/ CallMiss(flight)
    \/ \E ans \in ExtAnswers : AnswerRetry(ans) \/ AnswerBreak(ans)

OracleSpec == OracleInit /\ [][OracleNext]_vars

\* ------------------------------------------------------------------ the solve over the live oracle

\* Router<SkyScannerApiQuery>: the problems solved over the live oracle, round
\* trips from "AAA" leaving in window ro over intermediates visited in window
\* ri: one intermediate, the same one listed twice, or two
LiveDestLists ==
    {<<Destination("AAA", NoneRange, ro)>>
        \o [i \in 1 .. Len(mid) |-> Destination(mid[i], ri, ri)]
        \o <<Destination("AAA", ri, NoneRange)>> :
        ro \in {FixedDate(1), FixedDate(2)},
        ri \in {FixedDate(1), DateRange(1, 2)},
        mid \in {<<"BBB">>, <<"BBB", "BBB">>, <<"BBB", "CCC">>}}

\* What the external service answers during a solve: too many requests, an
\* error status, or one direct quote at the lowest or the highest price
LiveAnswers ==
    {a \in ExtAnswers : \/ a.kind \in {"TooManyRequests", "BadStatus"}
                        \/ a.kind = "Ok" /\ Len(a.quotes) = 1
                                         /\ a.quotes[1].amount \in {Some(1), Some(MaxPrice)}
                                         /\ a.quotes[1].isDirect = Some(TRUE)}

\* Mutant of expand_returns: perform_graph_search goes on to its next pop once
\* one candidate is priced, the rest of expand_node runs beside it
expand_returns_after_first(rest) == TRUE

\* expand_node returns, and the .await of perform_graph_search completes, when
\* its loops have no candidate left
expand_returns(rest) == rest = <<>>

\* The node expand_node builds from the Quote get_price returned
child_of_quote(src, cand, quote) ==
    FlightNode(cand.flight, Some(quote.min_price),
               Some(unwrap(src.back_price) + quote.min_price),
               Some(src), cand.dest_ref)

LiveInit ==
    /\ dest_list \in LiveDestLists
    /\ date_restrictions = DefaultRestrictions
    /\ data = <<>>
    /\ main_queue = SetToBag({Sentinel(dest_list[1])})
    /\ top = None
    /\ pending = <<>>
    /\ stats = NewStats
    /\ get_price_calls = 0
    /\ search_res = None
    /\ oracle_err = None
    /\ pc = "search"
    /\ result = <<>>
    /\ OracleIdle
    /\ NoCall
    /\ NoList

\* The popped node is not the goal: expand_node is entered with the
\* candidates of its two loops
LivePopExpand ==
    /\ pc = "search"
    /\ \E top_n \in heap_top(main_queue) :
        /\ ~is_goal(top_n, final_dest)
        /\ top' = Some(top_n)
        /\ main_queue' = main_queue (-) SetToBag({top_n})
        /\ LET cands == candidates(top_n, fill_dest_list(top_n, final_dest, init_dest_list))
           IN  /\ pending' = cands
               /\ pc' = IF cands = <<>> THEN "search" ELSE "expand"
    /\ UNCHANGED <<dest_list, date_restrictions, data, stats, get_price_calls, search_res,
                   oracle_err, result>>
    /\ UNCHANGED <<ovars, dvars, lvars>>

\* get_price for the next candidate finds its Flight in db; the child is
\* pushed.  (The call counters of the oracle on its own, n_calls, ext_requests,
\* ext_queries and quoted, are not kept during a solve.)
LiveCallHit ==
    /\ pc = "expand"
    /\ o_pc = "idle"
    /\ pending # <<>>
    /\ LET cand == Head(pending)
           hit == db_get(db, cand.flight)
       IN  /\ is_some(hit)
           /\ o_flight' = Some(cand.flight)
           /\ o_sent' = <<>>
           /\ o_answers' = <<>>
           /\ o_ret' = Some(Ok(unwrap(hit)))
           /\ main_queue' = main_queue (+) SetToBag({child_of_quote(unwrap(top), cand, unwrap(hit))})
    /\ stats' = record_call(stats, 1)
    /\ get_price_calls' = get_price_calls + 1
    /\ pending' = Tail(pending)
    /\ pc' = IF expand_returns(Tail(pending)) THEN "search" ELSE "expand"
    /\ UNCHANGED <<dest_list, date_restrictions, data, top, search_res, oracle_err, result>>
    /\ UNCHANGED <<db, o_pc, ext_requests, ext_queries, quoted, n_calls>>
    /\ UNCHANGED <<dvars, lvars>>

\* get_price for the next candidate misses db and sends the request;
\* expand_node is suspended at its .await
LiveCallMiss ==
    /\ pc = "expand"
    /\ o_pc = "idle"
    /\ pending # <<>>
    /\ LET flight == Head(pending).flight
       IN  /\ is_none(db_get(db, flight))
           /\ o_flight' = Some(flight)
           /\ o_sent' = <<Request(flight, 0)>>
    /\ get_price_calls' = get_price_calls + 1
    /\ o_answers' = <<>>
    /\ o_pc' = "awaiting"
    /\ UNCHANGED <<dest_list, date_restrictions, data, main_queue, top, pending, stats,
                   search_res, oracle_err, pc, result>>
    /\ UNCHANGED <<db, o_ret, ext_requests, ext_queries, quoted, n_calls>>
    /\ UNCHANGED <<dvars, lvars>>

\* The request is answered with 429: the retry loop sleeps and sends it again
LiveAnswerRetry(ans) ==
    /\ pc = "expand"
    /\ o_pc = "awaiting"
    /\ Len(o_answers) < MaxRateLimit
    /\ retry_again(get_indicative_prices_simplified(ans))
    /\ o_answers' = Append(o_answers, ans)
    /\ o_sent' = Append(o_sent, Request(unwrap(o_flight), BackoffMillis))
    /\ UNCHANGED <<db, o_pc, o_flight, o_ret, ext_requests, ext_queries, quoted, n_calls>>
    /\ UNCHANGED <<svars, dvars, lvars>>

\* The request is answered and the retry loop breaks: get_price returns, an
\* Err panics in expand_node's unwrap, a Quote is counted and its child pushed
LiveAnswerBreak(ans) ==
    /\ pc = "expand"
    /\ o_pc = "awaiting"
    /\ ~retry_again(get_indicative_prices_simplified(ans))
    /\ LET flight == unwrap(o_flight)
           fin == get_price_finish(db, flight, get_indicative_prices_simplified(ans))
           priced == ~fin[1] /\ fin[2].ok
       IN  /\ o_answers' = Append(o_answers, ans)
           /\ o_pc' = IF fin[1] THEN "panic" ELSE "idle"
           /\ o_ret' = IF fin[1] THEN o_ret ELSE Some(fin[2])
           /\ db' = fin[3]
           /\ IF priced
              THEN /\ main_queue' = main_queue (+)
                          SetToBag({child_of_quote(unwrap(top), Head(pending), fin[2].val)})
                   /\ stats' = record_call(stats, 1)
                   /\ pending' = Tail(pending)
                   /\ pc' = IF expand_returns(Tail(pending)) THEN "search" ELSE "expand"
                   /\ UNCHANGED oracle_err
              ELSE /\ pc' = "panic"
                   /\ oracle_err' = IF fin[1] THEN oracle_err ELSE Some(fin[2].err)
                   /\ UNCHANGED <<main_queue, stats, pending>>
    /\ UNCHANGED <<dest_list, date_restrictions, data, top, get_price_calls, search_res, result>>
    /\ UNCHANGED <<o_flight, o_sent, ext_requests, ext_queries, quoted, n_calls>>
    /\ UNCHANGED <<dvars, lvars>>

LiveNext ==
    \/ PopEmpty
    \/ PopGoal
    \/ LivePopExpand
    \/ LiveCallHit
    \/ LiveCallMiss
    \/ \E ans \in LiveAnswers : LiveAnswerRetry(ans) \/ LiveAnswerBreak(ans)

LiveSolveSpec == LiveInit /\ [][LiveNext]_vars

\* ------------------------------------------------------------------ the range algebra

Days == 1 .. MaxDay

\* Every SingleDateRange over Days whose DateRange has low <= high
AllRanges ==
    {NoneRange} \cup {FixedDate(d) : d \in Days}
                \cup UNION {{DateRange(a, b) : b \in a .. MaxDay} : a \in Days}

OptGaps == {None} \cup {Some(n) : n \in 0 .. MaxGap}

AllRestrictions == {DateRestrictions(mn, mx) : mn \in OptGaps, mx \in OptGaps}

\* The dates truncate is called with and the src_date of iter_partial
ArgDates == 0 .. MaxDay + 1

OptDates == {None} \cup {Some(d) : d \in ArgDates}

\* next is called at most MaxNext times on one iterator: past the end of the
\* longest range, twice
MaxNext == MaxDay + 2

\* The range methods on their own: no solve is running, no oracle exists.
\* A run makes one call of intersect or truncate, or makes one iterator and
\* calls next on it.
DateInit == NoSolve /\ OracleIdle /\ NoCall /\ NoList

\* self.intersect(&other)
CallIntersect(self, other) ==
    /\ NoCall
    /\ last_call' = Some([op |-> "intersect", self |-> self, other |-> other,
                          ret |-> intersect(self, other)])
    /\ UNCHANGED <<it_args, it, yielded>>
    /\ UNCHANGED <<svars, ovars, lvars>>

\* self.truncate(date)
CallTruncate(self, date) ==
    /\ NoCall
    /\ last_call' = Some([op |-> "truncate", self |-> self, date |-> date,
                          ret |-> truncate(self, date)])
    /\ UNCHANGED <<it_args, it, yielded>>
    /\ UNCHANGED <<svars, ovars, lvars>>

\* self.iter(restrictions)
CallIter(self, restrictions) ==
    /\ NoCall
    /\ it_args' = Some([self |-> self, restrictions |-> restrictions,
                        src_date |-> first_date(self), partial |-> FALSE, prev |-> None])
    /\ it' = Some(iter(self, restrictions))
    /\ yielded' = <<>>
    /\ UNCHANGED last_call
    /\ UNCHANGED <<svars, ovars, lvars>>

\* self.iter_partial(restrictions, src_date)
CallIterPartial(self, restrictions, src_date) ==
    /\ NoCall
    /\ it_args' = Some([self |-> self, restrictions |-> restrictions,
                        src_date |-> src_date, partial |-> TRUE, prev |-> None])
    /\ it' = Some(iter_partial(self, restrictions, src_date))
    /\ yielded' = <<>>
    /\ UNCHANGED last_call
    /\ UNCHANGED <<svars, ovars, lvars>>

\* it.next()
CallNext ==
    /\ is_some(it)
    /\ Len(yielded) < MaxNext
    /\ LET r == next(unwrap(it))
       IN  /\ it' = Some(r[2])
           /\ yielded' = Append(yielded, r[1])
    /\ UNCHANGED <<last_call, it_args>>
    /\ UNCHANGED <<svars, ovars, lvars>>

\* The same call that made the iterator, made again on the same range once
\* the iterator has ended and next was called MaxNext times; what the ended
\* one yielded is kept in prev
CallIterAgain ==
    /\ is_some(it)
    /\ yielded # <<>>
    /\ Len(yielded) = MaxNext
    /\ is_none(yielded[Len(yielded)])
    /\ is_none(unwrap(it_args).prev)
    /\ LET a == unwrap(it_args)
       IN  /\ it_args' = Some([a EXCEPT !.prev = Some(yielded)])
           /\ it' = Some(IF a.partial
                         THEN iter_partial(a.self, a.restrictions, a.src_date)
                         ELSE iter(a.self, a.restrictions))
    /\ yielded' = <<>>
    /\ UNCHANGED last_call
    /\ UNCHANGED <<svars, ovars, lvars>>

\* The DateConstraints get_intersect_iter_with_next is called on and with: no
\* date range, or any window on the side the method reads and no constraint
\* or the first day on the other side; no day-gap restriction, a minimum, a
\* maximum, or both
OtherSide == {NoneRange, FixedDate(1)}

GapChoices ==
    {DateRestrictions(mn, mx) : mn \in {None, Some(1)}, mx \in {None, Some(2)}}

SelfConstraints ==
    {DateConstraints(None, r) : r \in GapChoices}
        \cup {DateConstraints(Some(<<inb, outb>>), r) :
                 inb \in OtherSide, outb \in AllRanges, r \in GapChoices}

NextConstraints ==
    {DateConstraints(None, r) : r \in {DefaultRestrictions, DateRestrictions(Some(2), Some(1))}}
        \cup {DateConstraints(Some(<<inb, outb>>), r) :
                 inb \in AllRanges, outb \in OtherSide,
                 r \in {DefaultRestrictions, DateRestrictions(Some(2), Some(1))}}

SrcDates == {None, Some(1), Some(2)}

\* self.get_intersect_iter_with_next(&nxt, src_date): the iterator, made by
\* the iter_partial call of its last line, or the panic
CallIntersectIter(self, nxt, src_date) ==
    /\ NoCall
    /\ LET made == get_intersect_iter_with_next(self, nxt, src_date)
       IN  /\ last_call' = Some([op |-> "get_intersect_iter_with_next", self |-> self,
                                 next |-> nxt, src_date |-> src_date,
                                 panic |-> is_none(made)])
           /\ it' = made
           /\ it_args' = IF is_none(made) THEN None
                         ELSE Some([self |-> unwrap(made).date_range,
                                    restrictions |-> unwrap(made).restrictions,
                                    src_date |-> src_date, partial |-> TRUE, prev |-> None])
    /\ yielded' = <<>>
    /\ UNCHANGED <<svars, ovars, lvars>>

\* The ranges a run may still make its call on: all before the call, none after
Callable == IF NoCall THEN AllRanges ELSE {}

CallableConstraints == IF NoCall THEN SelfConstraints ELSE {}

DateNext ==
    \/ \E self \in Callable, other \in AllRanges : CallIntersect(self, other)
    \/ \E self \in Callable, date \in ArgDates : CallTruncate(self, date)
    \/ \E self \in Callable, restrictions \in AllRestrictions : CallIter(self, restrictions)
    \/ \E self \in Callable, restrictions \in AllRestrictions, src_date \in OptDates :
           CallIterPartial(self, restrictions, src_date)
    \/ \E self \in CallableConstraints, nxt \in NextConstraints, src_date \in SrcDates :
           CallIntersectIter(self, nxt, src_date)
    \/ CallNext
    \/ CallIterAgain

DateSpec == DateInit /\ [][DateNext]_vars

\* ------------------------------------------------------------------ the itinerary row list

\* AddChild is handled at most MaxRows times
MaxRows == 3

\* struct ListItemVals { airport, start_dates, end_dates, temp_constraints }
ListItemVals(airport, start_dates, end_dates, temp_constraints) ==
    [airport |-> airport, start_dates |-> start_dates, end_dates |-> end_dates,
     temp_constraints |-> temp_constraints]

\* ListItemVals::default(): every String empty
DefaultVals == ListItemVals("", <<"", "">>, <<"", "">>, <<"", "">>)

\* The values a row sends up with ChildUpdate
ValsChoices ==
    {DefaultVals, ListItemVals("AAA", <<"1", "2">>, <<"3", "4">>, <<"", "">>)}

\* The format! of get_formatted_text for one row, as the pieces of its String
format_row(v) ==
    <<"Airport ", v.airport, " start dates ", v.start_dates[1], " ", v.start_dates[2],
      " end dates ", v.end_dates[1], " ", v.end_dates[2],
      " temp dates ", v.temp_constraints[1], " ", v.temp_constraints[2]>>

\* Iterator::reduce with format!("{}\n{}", acc, e): None for no item
RECURSIVE reduce_lines(_)
reduce_lines(lines) ==
    IF lines = <<>> THEN None
    ELSE IF Len(lines) = 1 THEN Some(lines[1])
    ELSE Some(unwrap(reduce_lines(SubSeq(lines, 1, Len(lines) - 1)))
                  \o <<"\n">> \o lines[Len(lines)])

\* The indices (from 0) enumerate().filter() lets through, ascending
RECURSIVE active_idx(_)
active_idx(list) ==
    IF list = <<>> THEN <<>>
    ELSE active_idx(SubSeq(list, 1, Len(list) - 1))
             \o (IF list[Len(list)].on THEN <<Len(list) - 1>> ELSE <<>>)

\* ItineraryList::get_formatted_text: Some(the String), or None where an index
\* is out of bounds or the unwrap of reduce's None panics
get_formatted_text(list, vals) ==
    LET idxs == active_idx(list)
    IN  IF \E k \in 1 .. Len(idxs) : idxs[k] + 1 > Len(vals) THEN None
        ELSE reduce_lines([k \in 1 .. Len(idxs) |-> format_row(vals[idxs[k] + 1])])

\* Mutant of remove_child: the row is taken out of html_list
remove_child_drops_row(list, idx) == SelectSeq(list, LAMBDA x : x.key # idx)

\* The RemoveChild arm: every entry whose key is idx gets the flag false
remove_child(list, idx) ==
    [i \in 1 .. Len(list) |->
        IF list[i].key = idx THEN [key |-> list[i].key, on |-> FALSE] ELSE list[i]]

\* ItineraryListMessage::AddChild
AddChild ==
    /\ l_pc = "idle"
    /\ curr_count < MaxRows
    /\ list_item_vals' = Append(list_item_vals, DefaultVals)
    /\ html_list' = Append(html_list, [key |-> curr_count, on |-> TRUE])
    /\ curr_count' = curr_count + 1
    /\ msg' = Some([type |-> "AddChild"])
    /\ UNCHANGED l_pc
    /\ UNCHANGED <<svars, ovars, dvars>>

\* ItineraryListMessage::ChildUpdate(idx, vals): the index panics out of bounds
ChildUpdate(idx, vals) ==
    /\ l_pc = "idle"
    /\ msg' = Some([type |-> "ChildUpdate", idx |-> idx, vals |-> vals])
    /\ IF idx + 1 > Len(list_item_vals)
       THEN l_pc' = "panic" /\ UNCHANGED list_item_vals
       ELSE /\ list_item_vals' = [list_item_vals EXCEPT ![idx + 1] = vals]
            /\ UNCHANGED l_pc
    /\ UNCHANGED <<html_list, curr_count>>
    /\ UNCHANGED <<svars, ovars, dvars>>

\* ItineraryListMessage::RemoveChild(idx)
RemoveChild(idx) ==
    /\ l_pc = "idle"
    /\ html_list' = remove_child(html_list, idx)
    /\ msg' = Some([type |-> "RemoveChild", idx |-> idx])
    /\ UNCHANGED <<curr_count, list_item_vals, l_pc>>
    /\ UNCHANGED <<svars, ovars, dvars>>

\* ItineraryListMessage::SendPost: the text is formatted and handed to the
\* spawned request
SendPost ==
    /\ l_pc = "idle"
    /\ LET text == get_formatted_text(html_list, list_item_vals)
       IN  /\ msg' = Some([type |-> "SendPost", text |-> text])
           /\ l_pc' = IF is_none(text) THEN "panic" ELSE "idle"
    /\ UNCHANGED <<html_list, curr_count, list_item_vals>>
    /\ UNCHANGED <<svars, ovars, dvars>>

\* The component on its own: no solve, no oracle, no range call
ListInit == NoSolve /\ OracleIdle /\ NoCall /\ NoList

\* The rows ever added: their handlers carry the count at the time of AddChild
RowIds == {html_list[i].key : i \in 1 .. Len(html_list)}

ListNext ==
    \/ AddChild
    \/ \E idx \in RowIds, vals \in ValsChoices : ChildUpdate(idx, vals)
    \/ \E idx \in RowIds : RemoveChild(idx)
    \/ SendPost

ListSpec == ListInit /\ [][ListNext]_vars

\* ------------------------------------------------------------------ reference notions

\* The legs of a node: its ancestor chain without the sentinel
Legs(n) == Tail(backtrace_node(n))

\* Whether day d lies in window w; no constraint excludes no day
Contains(w, d) == w.tag = "None" \/ (w.d1 <= d /\ d <= w.d2)

\* The days on which a leg may leave stop from for stop to: those inside the
\* outbound window of from and the inbound window of to, an unconstrained
\* side taking the other side's bounds (two unconstrained sides give no day)
LegDates(from, to) ==
    IF from.dates[2].tag = "None" /\ to.dates[1].tag = "None" THEN {}
    ELSE {d \in Dates : Contains(from.dates[2], d) /\ Contains(to.dates[1], d)}

\* The priced flights of a leg from stop dest_list[i] to stop dest_list[j]
LegFlights(i, j) ==
    {Flight(dest_list[i].iata, dest_list[j].iata, d) :
        d \in LegDates(dest_list[i], dest_list[j])} \cap DOMAIN data

\* The total prices of the ways to go on from stop i through every stop of
\* rem (positions of dest_list), each once, and end at the final anchor
RECURSIVE TotalsFrom(_, _)
TotalsFrom(i, rem) ==
    IF rem = {}
    THEN {data[f] : f \in LegFlights(i, Len(dest_list))}
    ELSE UNION {{data[f] + t : f \in LegFlights(i, j), t \in TotalsFrom(j, rem \ {j})} :
                    j \in rem}

\* The total prices of all itineraries of the problem
AllTotals == TotalsFrom(1, 2 .. Len(dest_list) - 1)

InterCodes == {init_dest_list[i].iata : i \in 1 .. Len(init_dest_list)}

\* The intermediate codes differ from each other and from both anchors' codes
DistinctCodes ==
    /\ Cardinality(InterCodes) = Len(init_dest_list)
    /\ src_anchor.iata \notin InterCodes
    /\ final_dest.iata \notin InterCodes

IsMinimal(res) == total_price(res) \in AllTotals /\ \A t \in AllTotals : total_price(res) <= t

\* res leaves the origin, arrives at the final anchor and in between arrives
\* at each intermediate of the list exactly once
VisitsAll(res) ==
    /\ Len(res) = Len(init_dest_list) + 1
    /\ res[1].flight.src = src_anchor.iata
    /\ res[Len(res)].flight.dest = final_dest.iata
    /\ \A i \in 1 .. Len(init_dest_list) :
          Cardinality({k \in 1 .. Len(res) - 1 : res[k].flight.dest = init_dest_list[i].iata}) = 1

\* No intermediate code is the destination of two legs of the sequence
NoRepeat(legs) ==
    \A c \in InterCodes : Cardinality({k \in 1 .. Len(legs) : legs[k].flight.dest = c}) <= 1

\* ------------------------------------------------------------------ claims

\* C1 (as stated): for any destination list, a returned itinerary's total price
\* is the minimum over all itineraries that visit every intermediate once
\* inside the date windows.  Fails when the list repeats a code.
C1_MinimalAnyList == pc = "done" => IsMinimal(result)

\* C1 (amended): for a destination list whose intermediate codes differ from
\* each other and from both anchors' codes, a returned itinerary's total price
\* is the minimum over all such itineraries.
C1_Minimal == (pc = "done" /\ DistinctCodes) => IsMinimal(result)

\* C1 witness: a solve of two distinct intermediates returned, and the
\* itineraries of the problem do not all cost the same
C1_Witness ==
    /\ pc = "done" /\ DistinctCodes /\ Len(init_dest_list) = 2
    /\ Cardinality(AllTotals) >= 2
    /\ total_price(result) > 0

\* C2 (as stated): for any destination list, a returned itinerary leaves the
\* origin, ends at the final anchor and holds each intermediate exactly once.
\* Fails when the list repeats a code.
C2_VisitsAllAnyList == pc = "done" => VisitsAll(result)

\* C2 (amended): the same for a destination list whose intermediate codes
\* differ from each other and from both anchors' codes.
C2_VisitsAll == (pc = "done" /\ DistinctCodes) => VisitsAll(result)

\* C2 witness: a returned round trip through two distinct intermediates
C2_Witness ==
    /\ pc = "done" /\ DistinctCodes /\ Len(init_dest_list) = 2
    /\ src_anchor.iata = final_dest.iata
    /\ Len(result) = 3

\* C3: on every node pushed to the frontier and on every returned itinerary no
\* intermediate code is the destination of two legs.
C3_NoRepeat ==
    /\ \A n \in BagToSet(main_queue) : NoRepeat(Legs(n))
    /\ pc = "done" => NoRepeat(result)

\* C3 witness: a frontier node two legs deep in a problem of two intermediates
C3_Witness ==
    \E n \in BagToSet(main_queue) :
        /\ Len(Legs(n)) >= 2
        /\ Len(init_dest_list) = 2
        /\ Legs(n)[1].flight.dest \in InterCodes
        /\ Legs(n)[2].flight.dest \in InterCodes

\* C4 (as stated): on a returned itinerary each leg's date is strictly after
\* the leg before it, and the days between them respect min_days and max_days
\* of the shared restrictions when set.  The search never compares leg dates.
C4_DayGaps ==
    pc = "done" =>
        \A k \in 1 .. Len(result) - 1 :
            LET gap == result[k + 1].flight.date - result[k].flight.date
            IN  /\ gap > 0
                /\ is_some(date_restrictions.min_days) =>
                       gap >= unwrap(date_restrictions.min_days)
                /\ is_some(date_restrictions.max_days) =>
                       gap <= unwrap(date_restrictions.max_days)

\* C5: every leg of every node pushed to the frontier has a date inside the
\* outbound window of the stop it leaves and the inbound window of the stop it
\* arrives at, an unconstrained side taking the other side's bounds.
C5_InWindows ==
    \A n \in BagToSet(main_queue) :
        \A m \in {Legs(n)[k] : k \in 1 .. Len(Legs(n))} :
            m.flight.date \in LegDates(unwrap(m.prev).dest_ref, m.dest_ref)

\* C5 witness: a pushed leg on the last day of a two-day outbound window whose
\* arrival stop has no inbound constraint
C5_Witness ==
    \E n \in BagToSet(main_queue) :
        /\ is_some(n.prev)
        /\ unwrap(n.prev).dest_ref.dates[2].tag = "DateRange"
        /\ n.dest_ref.dates[1].tag = "None"
        /\ n.flight.date = unwrap(n.prev).dest_ref.dates[2].d2

\* C6 (as stated): when the frontier empties before a goal is popped the solve
\* returns the infeasible-itinerary error and never panics.  calc unwraps the
\* error.
C6_InfeasibleIsError ==
    (is_some(search_res) /\ ~unwrap(search_res).ok) => pc # "panic"

\* C7 (as stated): when the oracle returns an error for a candidate flight the
\* solve ends with that error as an error value, without an itinerary.
\* expand_node unwraps the error.
C7_OracleErrorIsValue ==
    is_some(oracle_err) =>
        /\ pc # "panic"
        /\ is_some(search_res) /\ ~unwrap(search_res).ok
        /\ result = <<>>

\* C8 (as stated): over any sequence of live get_price calls a Flight goes to
\* the external service at most once, whatever the calls returned.
C8_OneQueryPerFlight == \A f \in OFlights : ext_queries[f] <= 1

\* C8 (amended): once a call for a Flight has returned a Quote, no further
\* external request is sent for that Flight and every later call for it
\* returns that same Quote.
C8_CachedAfterQuote ==
    \A f \in DOMAIN quoted :
        /\ ext_requests[f] = quoted[f].requests
        /\ (o_pc = "idle" /\ o_flight = Some(f)) => o_ret = Some(Ok(quoted[f].quote))

\* C8 witness: a Flight priced by an earlier call was asked again and the call
\* returned without a request
C8_Witness ==
    /\ o_pc = "idle"
    /\ n_calls >= 2
    /\ is_some(o_flight)
    /\ unwrap(o_flight) \in DOMAIN quoted
    /\ o_sent = <<>>
    /\ o_ret = Some(Ok(quoted[unwrap(o_flight)].quote))

\* C9: no live get_price call returns the rate-limit error, and every
\* rate-limit answer a call received was followed by a request for the same
\* Flight sent after the fixed backoff.
C9_RateLimitRetried ==
    /\ is_some(o_ret) => unwrap(o_ret).err # "RateLimitExceeded"
    /\ \A i \in 1 .. Len(o_answers) :
           o_answers[i].kind = "TooManyRequests"
               => /\ Len(o_sent) > i
                  /\ o_sent[i + 1] = Request(o_sent[1].flight, BackoffMillis)
                  /\ o_sent[1].flight = unwrap(o_flight)

\* C9 witness: a call returned a Quote after MaxRateLimit consecutive
\* rate-limit answers
C9_Witness ==
    /\ o_pc = "idle"
    /\ Len(o_answers) = MaxRateLimit + 1
    /\ \A i \in 1 .. MaxRateLimit : o_answers[i].kind = "TooManyRequests"
    /\ Len(o_sent) = MaxRateLimit + 1
    /\ is_some(o_ret) /\ unwrap(o_ret).ok

\* C10 (as stated): an answer other than the rate-limit status is the last
\* answer of its call, the call has returned on it, and it returned a Quote
\* exactly when the answer was a success.
C10_ReturnsOnFirstOtherAnswer ==
    \A i \in 1 .. Len(o_answers) :
        o_answers[i].kind # "TooManyRequests"
            => /\ i = Len(o_answers)
               /\ o_pc = "idle"
               /\ is_some(o_ret)
               /\ unwrap(o_ret).ok => o_answers[i].kind = "Ok"

\* The failures of an external request other than the rate-limit status: no
\* transport, an error status, a body that is no JSON, a quotes section that is
\* no object, a quote whose price or direct flag has the wrong type
IsFailure(ans) ==
    \/ ans.kind \in {"Transport", "BadStatus", "BadJson", "BadShape"}
    \/ /\ ans.kind = "Ok"
       /\ \E i \in 1 .. Len(ans.quotes) :
              is_none(ans.quotes[i].amount) \/ is_none(ans.quotes[i].isDirect)

\* The QueryError each failure is reported as
FailureErr(ans) ==
    CASE ans.kind = "Transport" -> "ReqwestErr"
      [] ans.kind = "BadStatus" -> "BadResponse"
      [] ans.kind = "BadJson"   -> "ResponseConversionErr"
      [] OTHER                  -> "ResponseUnexpectedFormatErr"

C12_FixtureLookup ==
    /\ [](is_some(last_call) /\ unwrap(last_call).op = "get_price"
            => LET flight == unwrap(last_call).flight
                   ret == unwrap(last_call).ret
               IN  IF flight \in DOMAIN data
                   THEN ret.ok /\ ret.min_price = data[flight]
                   ELSE ~ret.ok /\ ret.err = "NonExistentLeg")
    /\ [][data' = data]_vars

\* C12 witness: a Flight on a day the table lacks, of a route the table holds
\* on another day, was answered with NonExistentLeg
C12_Witness ==
    /\ is_some(last_call)
    /\ unwrap(last_call).op = "get_price"
    /\ unwrap(last_call).flight \notin DOMAIN data
    /\ [unwrap(last_call).flight EXCEPT !.date = 1] \in DOMAIN data
    /\ unwrap(last_call).ret.err = "NonExistentLeg"

\* The last call, when it is a call of the method op
Called(op) == is_some(last_call) /\ unwrap(last_call).op = op

\* A range with a low and a high bound: FixedDate or DateRange
Bounded(r) == r.tag # "None"

\* The dates the iterator of a range yields under no restrictions, as a set
DatesOf(r) ==
    LET ds == collect(iter(r, DefaultRestrictions))
    IN  {ds[i] : i \in 1 .. Len(ds)}

\* C13: intersect(a, b) equals intersect(b, a), and every date of a non-empty
\* result lies in the span of a and in the span of b (an unconstrained
\* operand spans every date).
C13_IntersectCommutes ==
    Called("intersect") =>
        LET c == unwrap(last_call)
        IN  /\ c.ret = intersect(c.other, c.self)
            /\ Bounded(c.ret) =>
                  /\ c.ret.d1 <= c.ret.d2
                  /\ \A d \in c.ret.d1 .. c.ret.d2 : Contains(c.self, d) /\ Contains(c.other, d)

\* C13 witness: two spans that overlap in more than one day without one
\* holding the other
C13_Witness ==
    /\ Called("intersect")
    /\ unwrap(last_call).self.tag = "DateRange"
    /\ unwrap(last_call).other.tag = "DateRange"
    /\ unwrap(last_call).self.d1 < unwrap(last_call).other.d1
    /\ unwrap(last_call).self.d2 < unwrap(last_call).other.d2
    /\ unwrap(last_call).ret.tag = "DateRange"

\* C14: for two bounded ranges intersect returns the interval from the
\* greater low to the lesser high: DateRange when it has more than one day,
\* FixedDate when it is one day, SingleDateRange::None when the greater low is
\* after the lesser high.
C14_IntersectInterval ==
    (Called("intersect") /\ Bounded(unwrap(last_call).self) /\ Bounded(unwrap(last_call).other)) =>
        LET c == unwrap(last_call)
            lo == IF c.self.d1 >= c.other.d1 THEN c.self.d1 ELSE c.other.d1
            hi == IF c.self.d2 <= c.other.d2 THEN c.self.d2 ELSE c.other.d2
        IN  c.ret = IF lo > hi THEN NoneRange
                    ELSE IF lo = hi THEN FixedDate(lo)
                    ELSE DateRange(lo, hi)

\* C14 witness: two spans of more than one day that share only one day
\* collapse to FixedDate
C14_Witness ==
    /\ Called("intersect")
    /\ unwrap(last_call).self.tag = "DateRange"
    /\ unwrap(last_call).other.tag = "DateRange"
    /\ unwrap(last_call).self.d1 < unwrap(last_call).self.d2
    /\ unwrap(last_call).other.d1 < unwrap(last_call).other.d2
    /\ unwrap(last_call).self.d2 = unwrap(last_call).other.d1
    /\ unwrap(last_call).ret = FixedDate(unwrap(last_call).self.d2)

C16_EmptyIsNotUnconstrained ==
    (/\ Called("intersect")
     /\ Bounded(unwrap(last_call).self) /\ Bounded(unwrap(last_call).other)
     /\ \/ unwrap(last_call).self.d2 < unwrap(last_call).other.d1
        \/ unwrap(last_call).other.d2 < unwrap(last_call).self.d1) =>
        /\ unwrap(last_call).ret # NoneRange
        /\ \A r \in AllRanges : Bounded(r) => DatesOf(intersect(unwrap(last_call).ret, r)) = {}

\* C17: truncate(r, t) returns a range without t and without any earlier
\* date: FixedDate(d) is kept iff d > t, DateRange(a, b) becomes
\* DateRange(the later of a and t + 1, b) iff b > t, and every other result is
\* SingleDateRange::None, which yields no date.
C17_TruncateRemoves ==
    Called("truncate") =>
        LET c == unwrap(last_call)
            r == c.self
            t == c.date
        IN  /\ \A d \in DatesOf(c.ret) : d > t
            /\ Bounded(c.ret) => c.ret.d1 > t /\ c.ret.d1 <= c.ret.d2
            /\ c.ret = CASE r.tag = "FixedDate" /\ r.d1 > t -> r
                         [] r.tag = "DateRange" /\ r.d2 > t ->
                                DateRange(IF r.d1 > t + 1 THEN r.d1 ELSE t + 1, r.d2)
                         [] OTHER -> NoneRange
            /\ c.ret = NoneRange => DatesOf(c.ret) = {}

\* C17 witness: a span that starts on or before the date and ends after it
\* lost its first days
C17_Witness ==
    /\ Called("truncate")
    /\ unwrap(last_call).self.tag = "DateRange"
    /\ unwrap(last_call).self.d1 <= unwrap(last_call).date
    /\ unwrap(last_call).self.d2 > unwrap(last_call).date + 1
    /\ unwrap(last_call).ret =
           DateRange(unwrap(last_call).date + 1, unwrap(last_call).self.d2)

\* The dates lo .. hi in ascending order, each as Some
Ascending(lo, hi) == [i \in 1 .. (IF hi >= lo THEN hi - lo + 1 ELSE 0) |-> Some(lo + i - 1)]

\* What the calls of next returned so far are the items of seq in order and,
\* from its end on, None
YieldsThenEnds(seq) ==
    \A i \in 1 .. Len(yielded) : yielded[i] = IF i <= Len(seq) THEN seq[i] ELSE None

\* C18: under no restrictions the iterator of FixedDate(d) yields d and the
\* iterator of DateRange(a, b) yields a, a + 1, .. b in this order; then every
\* next returns None; and an iterator made again on the same range yields what
\* the first one did.
C18_IterYieldsRange ==
    (/\ is_some(it_args)
     /\ ~unwrap(it_args).partial
     /\ unwrap(it_args).restrictions = DefaultRestrictions
     /\ Bounded(unwrap(it_args).self)) =>
        LET a == unwrap(it_args)
        IN  /\ YieldsThenEnds(Ascending(a.self.d1, a.self.d2))
            /\ is_some(a.prev) =>
                   \A i \in 1 .. Len(yielded) : yielded[i] = unwrap(a.prev)[i]

\* C18 witness: a second iterator over a span of three days or more has
\* yielded the span and ended, as the first had
C18_Witness ==
    /\ is_some(it_args)
    /\ ~unwrap(it_args).partial
    /\ unwrap(it_args).restrictions = DefaultRestrictions
    /\ unwrap(it_args).self.tag = "DateRange"
    /\ unwrap(it_args).self.d2 - unwrap(it_args).self.d1 >= 2
    /\ is_some(unwrap(it_args).prev)
    /\ Len(yielded) = MaxNext
    /\ yielded = unwrap(unwrap(it_args).prev)
    /\ is_some(yielded[3]) /\ is_none(yielded[MaxNext])

\* C19: every date an iterator made by iter_partial yields lies inside the
\* range, is at least min_days after src_date when both are set, and is at
\* most max_days after src_date when both are set.
C19_IterPartialBounds ==
    (is_some(it_args) /\ unwrap(it_args).partial) =>
        LET a == unwrap(it_args)
        IN  \A i \in 1 .. Len(yielded) :
                is_some(yielded[i]) =>
                    LET d == unwrap(yielded[i])
                    IN  /\ Bounded(a.self) /\ a.self.d1 <= d /\ d <= a.self.d2
                        /\ (is_some(a.src_date) /\ is_some(a.restrictions.min_days))
                               => d >= unwrap(a.src_date) + unwrap(a.restrictions.min_days)
                        /\ (is_some(a.src_date) /\ is_some(a.restrictions.max_days))
                               => d - unwrap(a.src_date) <= unwrap(a.restrictions.max_days)

\* C19 witness: a range that starts before src_date + min_days and ends after
\* src_date + max_days has yielded a date
C19_Witness ==
    /\ is_some(it_args)
    /\ unwrap(it_args).partial
    /\ is_some(unwrap(it_args).src_date)
    /\ is_some(unwrap(it_args).restrictions.min_days)
    /\ is_some(unwrap(it_args).restrictions.max_days)
    /\ Bounded(unwrap(it_args).self)
    /\ unwrap(it_args).self.d1
           < unwrap(unwrap(it_args).src_date) + unwrap(unwrap(it_args).restrictions.min_days)
    /\ unwrap(it_args).self.d2
           > unwrap(unwrap(it_args).src_date) + unwrap(unwrap(it_args).restrictions.max_days)
    /\ Len(yielded) >= 2
    /\ is_some(yielded[1])
    /\ is_none(yielded[Len(yielded)])

\* C20: iter() on DateRange(a, b) with min_days N and max_days M yields in
\* ascending order exactly the dates d with a + N <= d <= b and d - a < M,
\* and then ends.
C20_IterRestricted ==
    (/\ is_some(it_args)
     /\ ~unwrap(it_args).partial
     /\ unwrap(it_args).self.tag = "DateRange"
     /\ is_some(unwrap(it_args).restrictions.min_days)
     /\ is_some(unwrap(it_args).restrictions.max_days)) =>
        LET a == unwrap(it_args).self.d1
            b == unwrap(it_args).self.d2
            N == unwrap(unwrap(it_args).restrictions.min_days)
            M == unwrap(unwrap(it_args).restrictions.max_days)
            last == IF b <= a + M - 1 THEN b ELSE a + M - 1
        IN  YieldsThenEnds(Ascending(a + N, last))

\* C20 witness: a span cut at both ends (N >= 1, a + M <= b) has yielded two
\* dates and ended
C20_Witness ==
    /\ is_some(it_args)
    /\ ~unwrap(it_args).partial
    /\ unwrap(it_args).self.tag = "DateRange"
    /\ is_some(unwrap(it_args).restrictions.min_days)
    /\ is_some(unwrap(it_args).restrictions.max_days)
    /\ unwrap(unwrap(it_args).restrictions.min_days) >= 1
    /\ unwrap(it_args).self.d1 + unwrap(unwrap(it_args).restrictions.max_days)
           <= unwrap(it_args).self.d2
    /\ Len(yielded) = 3
    /\ yielded[1] = Some(unwrap(it_args).self.d1 + unwrap(unwrap(it_args).restrictions.min_days))
    /\ is_some(yielded[2])
    /\ is_none(yielded[3])


\* No ancestor of node n is a node the goal test accepts
RECURSIVE NoGoalAncestor(_)
NoGoalAncestor(n) ==
    is_some(n.prev) =>
        /\ ~is_goal(unwrap(n.prev), final_dest)
        /\ NoGoalAncestor(unwrap(n.prev))

\* The most legs a path can have: one per intermediate, and the leg to the
\* final anchor
MaxLegs == Len(init_dest_list) + 1

\* The most children one call of expand_node can push: one per destination
\* that fill_dest_list returns and day of Dates
Branching ==
    (IF Len(init_dest_list) = 0 THEN 1 ELSE Len(init_dest_list)) * Cardinality(Dates)

\* The most loop iterations spent on a frontier node of the given number of
\* legs and on all that can be pushed beneath it
RECURSIVE Weight(_)
Weight(legs) == IF legs >= MaxLegs THEN 1 ELSE 1 + Branching * Weight(legs + 1)

\* The frontier nodes of the given number of legs (of MaxLegs or more, for
\* MaxLegs)
NodesOfLegs(legs) ==
    LET of == {n \in BagToSet(main_queue) :
                  IF legs >= MaxLegs THEN Len(Legs(n)) >= MaxLegs ELSE Len(Legs(n)) = legs}
    IN  [n \in of |-> CopiesIn(n, main_queue)]

RECURSIVE WeightFrom(_)
WeightFrom(legs) ==
    BagCardinality(NodesOfLegs(legs)) * Weight(legs)
        + (IF legs >= MaxLegs THEN 0 ELSE WeightFrom(legs + 1))

\* A bound on the loop iterations still to come: the weight of the frontier,
\* and the iteration that finds it empty
Variant == IF pc = "search" THEN 1 + WeightFrom(0) ELSE 0

\* C21: every iteration of the search loop lowers a natural-number bound on the
\* iterations to come, so the loop terminates; it leaves every frontier node
\* with at most (number of intermediates + 1) legs and no goal among its
\* ancestors; and when the loop has ended without an oracle error it ended by
\* popping a goal or by emptying the frontier.
C21_Terminates ==
    [][/\ Variant' < Variant
       /\ \A n \in BagToSet(main_queue') :
              Len(Legs(n)) <= MaxLegs /\ NoGoalAncestor(n)
       /\ (pc' # "search" /\ is_none(oracle_err')) =>
              /\ is_some(search_res')
              /\ unwrap(search_res').ok \/ main_queue' = EmptyBag]_vars

\* C21 witness: the loop ended by emptying a frontier that had held nodes of
\* a problem of two intermediates
C21_Witness ==
    /\ pc # "search" /\ is_none(oracle_err)
    /\ is_some(search_res) /\ ~unwrap(search_res).ok
    /\ main_queue = EmptyBag
    /\ Len(init_dest_list) = 2
    /\ stats.api_calls >= 2


\* How a solve ended: with an itinerary and its total price, with the
\* infeasible-itinerary error, or in an oracle error
Outcome(kind, total) == [kind |-> kind, total |-> total]

\* The outcome of the search loop run from the given frontier with one fixed
\* choice among the entries pop may return
RECURSIVE SearchFrom(_)
SearchFrom(queue) ==
    IF queue = EmptyBag THEN Outcome("infeasible", 0)
    ELSE LET top_n == CHOOSE n \in heap_top(queue) : TRUE
         IN  IF is_goal(top_n, final_dest)
             THEN Outcome("itinerary", total_price(calc_result(backtrace_node(top_n))))
             ELSE LET dl == fill_dest_list(top_n, final_dest, init_dest_list)
                      cands == candidates(top_n, dl)
                      n == priced_prefix(data, cands)
                  IN  IF n < Len(cands) THEN Outcome("oracle error", 0)
                      ELSE SearchFrom(push_all(queue (-) SetToBag({top_n}), data, top_n, cands, n))

\* The outcome of the solve that has ended
Ended ==
    IF is_some(oracle_err) THEN Outcome("oracle error", 0)
    ELSE IF pc = "done" THEN Outcome("itinerary", total_price(result))
    ELSE Outcome("infeasible", 0)

\* The table prices every flight between the modelled codes on every day of Dates
AllPriced == \A s \in Codes, d \in Codes, t \in Dates : Flight(s, d, t) \in DOMAIN data

\* C22 (as stated): for any problem and price table, a solve that has ended
\* ended as the solve of the same problem under one fixed pop order ends: with
\* the same total price, or failing as it fails.  Fails when the table lacks
\* a flight that only some pop orders ask about.
C22_SameOutcomeAnyTable ==
    pc # "search" => Ended = SearchFrom(SetToBag({Sentinel(src_anchor)}))

\* C22 (amended): the same for a price table that prices every candidate
\* flight.
C22_SameOutcome ==
    (pc # "search" /\ AllPriced) => Ended = SearchFrom(SetToBag({Sentinel(src_anchor)}))

\* C22 witness: under a table that prices every flight a goal was popped
\* while an entry of the same cumulative price that is no goal was in the
\* frontier
C22_Witness ==
    /\ pc = "done" /\ AllPriced
    /\ Len(init_dest_list) = 2
    /\ \E n \in BagToSet(main_queue) :
          /\ ~is_goal(n, final_dest)
          /\ unwrap(n.back_price) = total_price(result)

C24_PopsCheapest ==
    [][\A n \in BagToSet(main_queue) :
          CopiesIn(n, main_queue') < CopiesIn(n, main_queue) =>
              \A m \in BagToSet(main_queue) :
                  unwrap(n.back_price) <= unwrap(m.back_price)]_vars

\* C24 witness: a goal was popped while the frontier held an entry of a
\* higher cumulative price and an entry whose own leg was cheaper than the
\* goal's
C24_Witness ==
    /\ pc = "done"
    /\ \E m \in BagToSet(main_queue) : unwrap(m.back_price) > total_price(result)
    /\ \E m \in BagToSet(main_queue) :
          /\ unwrap(m.price) < result[Len(result)].price
          /\ unwrap(m.back_price) >= total_price(result)

\* The frontier entry the step has popped
Popped(n) == CopiesIn(n, main_queue') < CopiesIn(n, main_queue)

\* C25: a popped node that ends at the final anchor's code and has a parent
\* ends the search at once: its path is returned and nothing is pushed.  Any
\* other popped node, the sentinel of a round trip included, is expanded: the
\* search does not return on it and every node pushed has it as parent.  No
\* pop follows the one that returned.
C25_GoalTest ==
    [][/\ pc = "search"
       /\ \A n \in BagToSet(main_queue) :
              Popped(n) =>
                  IF n.flight.dest = final_dest.iata /\ is_some(n.prev)
                  THEN /\ pc' = "done"
                       /\ result' = calc_result(backtrace_node(n))
                       /\ main_queue' = main_queue (-) SetToBag({n})
                  ELSE /\ pc' # "done"
                       /\ result' = <<>>
                       /\ \A m \in BagToSet(main_queue') :
                              CopiesIn(m, main_queue') > CopiesIn(m, main_queue)
                                  => m.prev = Some(n)]_vars

\* C25 witness: a round trip returned an itinerary that leaves the origin and
\* comes back to it
C25_Witness ==
    /\ pc = "done"
    /\ src_anchor.iata = final_dest.iata
    /\ Len(result) >= 2
    /\ result[1].flight.src = src_anchor.iata
    /\ result[Len(result)].flight.dest = src_anchor.iata

\* The destination codes of a node and of all its ancestors, the sentinel's
\* (the origin's code) included
PathCodes(n) == {backtrace_node(n)[k].flight.dest : k \in 1 .. Len(backtrace_node(n))}

\* The entries of the intermediate list, in its order, whose code is not on
\* the path of n
Unvisited(n) == SelectSeq(init_dest_list, LAMBDA e : e.iata \notin PathCodes(n))

\* C26: for every frontier node, fill_dest_list returns the entries of the
\* intermediate list, in input order, whose code is not the destination of the
\* node nor of an ancestor up to the sentinel; it returns the final
\* destination alone exactly when there is no such entry.
C26_FillDestList ==
    \A n \in BagToSet(main_queue) :
        LET filled == fill_dest_list(n, final_dest, init_dest_list)
        IN  IF Unvisited(n) = <<>> THEN filled = <<final_dest>> ELSE filled = Unvisited(n)

\* C26 witness: a frontier node one leg deep in a problem of two intermediates
\* of different codes, for which the other intermediate alone is returned
C26_Witness ==
    \E n \in BagToSet(main_queue) :
        /\ Len(Legs(n)) = 1
        /\ Len(init_dest_list) = 2
        /\ n.flight.dest = init_dest_list[1].iata
        /\ fill_dest_list(n, final_dest, init_dest_list) = <<init_dest_list[2]>>
        /\ init_dest_list[2] # final_dest

\* The child the claim describes for popped node n, candidate e and date d
ExpectedChild(n, e, d) ==
    LET flight == Flight(n.flight.dest, e.iata, d)
    IN  FlightNode(flight, Some(data[flight]), Some(unwrap(n.back_price) + data[flight]),
                   Some(n), e)

\* The pairs (position of a candidate in the list fill_dest_list returned,
\* date) with the date inside the candidate's inbound window and the outbound
\* window of n
ChildPairs(n) ==
    LET dl == fill_dest_list(n, final_dest, init_dest_list)
    IN  {p \in (1 .. Len(dl)) \X Dates : p[2] \in LegDates(n.dest_ref, dl[p[1]])}

\* C27: an expansion in which the oracle priced every candidate flight leaves
\* the frontier as it was without the popped node n and with one child more per
\* pair of ChildPairs(n): the flight from n's destination to the candidate on
\* the date, the table's price for it, n's cumulative price plus that price, n
\* as parent; and it made one oracle call per pair.
C27_ExpandNode ==
    [][\A n \in BagToSet(main_queue) :
          (Popped(n) /\ ~is_goal(n, final_dest) /\ is_none(oracle_err')) =>
              LET dl == fill_dest_list(n, final_dest, init_dest_list)
                  kids(x) == {p \in ChildPairs(n) : ExpectedChild(n, dl[p[1]], p[2]) = x}
              IN  /\ \A x \in BagToSet(main_queue') \cup BagToSet(main_queue) :
                         CopiesIn(x, main_queue') =
                             CopiesIn(x, main_queue) - (IF x = n THEN 1 ELSE 0)
                                 + Cardinality(kids(x))
                  /\ \A p \in ChildPairs(n) :
                         CopiesIn(ExpectedChild(n, dl[p[1]], p[2]), main_queue') >= 1
                  /\ get_price_calls' = get_price_calls + Cardinality(ChildPairs(n))]_vars

\* C27 witness: the frontier holds two children of one parent that is not the
\* sentinel, on different dates, their cumulative prices above their own
C27_Witness ==
    \E a \in BagToSet(main_queue), b \in BagToSet(main_queue) :
        /\ a.prev = b.prev /\ is_some(a.prev)
        /\ is_some(unwrap(a.prev).prev)
        /\ a.flight.date # b.flight.date
        /\ unwrap(a.back_price) > unwrap(a.price)
        /\ unwrap(b.back_price) > unwrap(b.price)

\* C28: a returned itinerary has a first leg that departs the origin's code,
\* legs that each depart the code the leg before arrived at, a last leg that
\* arrives at the final anchor's code, no entry for the sentinel, and on each
\* entry the table's price of that leg alone.
C28_Backtrace ==
    pc = "done" =>
        /\ Len(result) >= 1
        /\ result[1].flight.src = src_anchor.iata
        /\ \A k \in 1 .. Len(result) - 1 : result[k + 1].flight.src = result[k].flight.dest
        /\ result[Len(result)].flight.dest = final_dest.iata
        /\ \A k \in 1 .. Len(result) :
               /\ result[k].flight.src # ""
               /\ result[k].flight \in DOMAIN data
               /\ result[k].price = data[result[k].flight]

\* C28 witness: a returned itinerary of three legs through three different
\* codes, the first two legs priced above zero
C28_Witness ==
    /\ pc = "done"
    /\ Len(result) = 3
    /\ result[1].price > 0 /\ result[2].price > 0
    /\ result[1].flight.dest # result[2].flight.dest
    /\ result[2].flight.dest # result[3].flight.dest
    /\ result[3].flight.dest # result[1].flight.dest

\* C29 (as stated): a live get_price call that returned a Quote from a
\* response returned one whose min_price is not above that of any quote of the
\* response, and db holds that Quote.  get_price takes the first quote.
C29_ReturnsCheapest ==
    (o_pc = "idle" /\ is_some(o_ret) /\ unwrap(o_ret).ok /\ o_answers # <<>>) =>
        LET quotes == o_answers[Len(o_answers)].quotes
        IN  /\ \A i \in 1 .. Len(quotes) :
                   unwrap(o_ret).val.min_price <= unwrap(quotes[i].amount)
            /\ db_get(db, unwrap(o_flight)) = Some(unwrap(o_ret).val)

\* C30 (as stated): no live get_price call panics, and a call whose last
\* answer was a success without quotes has returned a QueryError.  get_price
\* indexes the empty vector.
C30_QuoteOrTypedError ==
    /\ o_pc # "panic"
    /\ (o_answers # <<>>
            /\ o_answers[Len(o_answers)].kind = "Ok"
            /\ o_answers[Len(o_answers)].quotes = <<>>) =>
           /\ o_pc = "idle"
           /\ is_some(o_ret) /\ ~unwrap(o_ret).ok

\* The dates an iterator that has ended yielded
YieldedDates == {unwrap(yielded[i]) : i \in {j \in 1 .. Len(yielded) : is_some(yielded[j])}}

\* C31 (as stated): once an iterator made by iter_partial with a src_date has
\* ended, the dates it yielded are the dates d of the range for which
\* within_constraints(src_date, d) is true.  The iterator leaves out the date
\* exactly max_days after src_date, which the predicate accepts.
C31_IterAgreesWithPredicate ==
    (/\ is_some(it_args) /\ unwrap(it_args).partial
     /\ is_some(unwrap(it_args).src_date)
     /\ yielded # <<>> /\ is_none(yielded[Len(yielded)])) =>
        LET a == unwrap(it_args)
        IN  YieldedDates =
                {d \in DatesOf(a.self) :
                    within_constraints(a.restrictions, unwrap(a.src_date), d)}

\* The window get_intersect_iter_with_next is to enumerate for the call c: the
\* overlap of self's outbound and next's inbound window, or the one of the two
\* that exists
WindowOf(c) ==
    IF is_some(c.self.date_range) /\ is_some(c.next.date_range)
    THEN intersect(unwrap(c.self.date_range)[2], unwrap(c.next.date_range)[1])
    ELSE IF is_some(c.self.date_range) THEN unwrap(c.self.date_range)[2]
    ELSE unwrap(c.next.date_range)[1]

\* The dates of window w at least min_days after src (src itself with no
\* minimum) and less than max_days after it, ascending, under restrictions r
GapDates(w, r, src) ==
    IF ~Bounded(w) THEN <<>>
    ELSE LET floor == IF is_none(src) THEN w.d1
                      ELSE unwrap(src) + (IF is_some(r.min_days) THEN unwrap(r.min_days) ELSE 0)
             lo == IF floor > w.d1 THEN floor ELSE w.d1
             cap == IF is_some(src) /\ is_some(r.max_days)
                    THEN unwrap(src) + unwrap(r.max_days) - 1 ELSE w.d2
             hi == IF cap < w.d2 THEN cap ELSE w.d2
         IN  Ascending(lo, hi)

\* C32: get_intersect_iter_with_next(self, next, src_date) fails only when
\* neither self nor next has a date range; otherwise its iterator yields, in
\* ascending order, the dates of intersect(self's outbound window, next's
\* inbound window), or of the one window that exists, that self's day-gap
\* restrictions allow after src_date, and then ends.
C32_IntersectIter ==
    Called("get_intersect_iter_with_next") =>
        LET c == unwrap(last_call)
        IN  /\ c.panic <=> (is_none(c.self.date_range) /\ is_none(c.next.date_range))
            /\ ~c.panic =>
                   YieldsThenEnds(GapDates(WindowOf(c), c.self.date_restrictions, c.src_date))

\* C32 witness: both have a date range, the overlap is smaller than either
\* window, self and next carry different restrictions, src_date is set, and
\* the iterator has yielded a date and ended
C32_Witness ==
    /\ Called("get_intersect_iter_with_next")
    /\ is_some(unwrap(last_call).self.date_range)
    /\ is_some(unwrap(last_call).next.date_range)
    /\ WindowOf(unwrap(last_call)) # unwrap(unwrap(last_call).self.date_range)[2]
    /\ WindowOf(unwrap(last_call)) # unwrap(unwrap(last_call).next.date_range)[1]
    /\ unwrap(last_call).self.date_restrictions # unwrap(last_call).next.date_restrictions
    /\ unwrap(last_call).self.date_restrictions # DefaultRestrictions
    /\ is_some(unwrap(last_call).src_date)
    /\ Len(yielded) >= 2
    /\ is_some(yielded[1])
    /\ is_none(yielded[Len(yielded)])

\* C32 witness of the failure: neither self nor next has a date range
C32_PanicWitness ==
    /\ Called("get_intersect_iter_with_next")
    /\ unwrap(last_call).panic

\* The frontier entries the step has pushed
Pushed(n) == CopiesIn(n, main_queue') > CopiesIn(n, main_queue)

\* C33: prices being non-negative, every child a step pushes has a cumulative
\* price at least its parent's, and each popped node has a cumulative price at
\* least that of the node popped before it.
C33_PricesNonDecreasing ==
    [][/\ \A n \in BagToSet(main_queue') :
              Pushed(n) => /\ is_some(n.prev)
                           /\ unwrap(n.back_price) >= unwrap(unwrap(n.prev).back_price)
       /\ (is_some(top) /\ is_some(top')) =>
              unwrap(unwrap(top').back_price) >= unwrap(unwrap(top).back_price)]_vars

\* C33 witness: the sentinel, a node costlier than the sentinel and a child of
\* that node costlier again have been popped in this order, and a child
\* costlier than its parent is in the frontier
C33_Witness ==
    /\ pc = "search"
    /\ is_some(top)
    /\ is_some(unwrap(top).prev)
    /\ is_some(unwrap(unwrap(top).prev).prev)
    /\ unwrap(unwrap(top).back_price) > unwrap(unwrap(unwrap(top).prev).back_price)
    /\ unwrap(unwrap(unwrap(top).prev).back_price) > 0
    /\ \E n \in BagToSet(main_queue) :
           /\ is_some(n.prev)
           /\ unwrap(n.back_price) > unwrap(unwrap(n.prev).back_price)

\* The node and every node of its ancestor chain carry Some leg price and Some
\* cumulative price
RECURSIVE Concrete(_)
Concrete(n) ==
    /\ is_some(n.price)
    /\ is_some(n.back_price)
    /\ is_some(n.prev) => Concrete(unwrap(n.prev))

\* C34: every node in the frontier or on an ancestor chain, and the node
\* popped last, carries a concrete leg price and a concrete cumulative price,
\* so no comparison of the heap meets an empty price; and no step modifies a
\* node: a frontier entry that was not popped stays as it is, and every entry
\* pushed is a new node whose parent is the popped node, unchanged.
C34_NodesConcreteAndFixed ==
    /\ []((\A n \in BagToSet(main_queue) : Concrete(n))
            /\ (is_some(top) => Concrete(unwrap(top))))
    /\ [][/\ \A n \in BagToSet(main_queue) :
                 ~Popped(n) => CopiesIn(n, main_queue') >= CopiesIn(n, main_queue)
          /\ \A n \in BagToSet(main_queue) :
                 Popped(n) => /\ top' = Some(n)
                              /\ CopiesIn(n, main_queue') = CopiesIn(n, main_queue) - 1
          /\ \A n \in BagToSet(main_queue') : Pushed(n) => n.prev = top']_vars

\* C34 witness: the heap holds at least two nodes to compare, one of them
\* with a chain of two ancestors, and its parent was popped last
C34_Witness ==
    /\ pc = "search"
    /\ BagCardinality(main_queue) >= 2
    /\ \E n \in BagToSet(main_queue) :
           /\ n.prev = top
           /\ is_some(unwrap(n.prev).prev)

\* The sum of the leg prices along the ancestor chain of a node, the node's
\* own leg included; the sentinel's leg price is 0
RECURSIVE ChainSum(_)
ChainSum(n) ==
    unwrap(n.price) + (IF is_some(n.prev) THEN ChainSum(unwrap(n.prev)) ELSE 0)

\* The cumulative price of the node and of each of its ancestors is the sum
\* of the leg prices up to it
RECURSIVE Cumulative(_)
Cumulative(n) ==
    /\ unwrap(n.back_price) = ChainSum(n)
    /\ is_some(n.prev) => Cumulative(unwrap(n.prev))

\* C35: the cumulative price of every node, in the frontier, on an ancestor
\* chain or popped last, is the sum of the leg prices along its ancestor chain,
\* the sentinel counting 0; and the total_price of a returned result is the
\* cumulative price of the goal node.
C35_CumulativeIsSum ==
    /\ \A n \in BagToSet(main_queue) : Cumulative(n)
    /\ is_some(top) => Cumulative(unwrap(top))
    /\ pc = "done" => /\ is_some(top)
                      /\ is_goal(unwrap(top), final_dest)
                      /\ total_price(result) = unwrap(unwrap(top).back_price)

\* C35 witness: a result of three legs with a total above the price of any
\* one leg has been returned
C35_Witness ==
    /\ pc = "done"
    /\ Len(result) = 3
    /\ total_price(result) > MaxPrice
    /\ total_price(result) = unwrap(unwrap(top).back_price)

\* C36: a step of live get_price changes db only by adding the requested
\* Flight, absent until then, with the Quote the call returns after a successful
\* external query; a cache hit, an error return and a panic leave db as it
\* was; no entry is ever overwritten or removed; and a call for a Flight that is
\* not in db, one that failed before included, goes to the external service.
C36_CacheFrame ==
    [][/\ \A f \in DOMAIN db : f \in DOMAIN db' /\ db'[f] = db[f]
       /\ db' # db =>
              /\ o_pc = "awaiting" /\ o_pc' = "idle"
              /\ is_some(o_ret') /\ unwrap(o_ret').ok
              /\ unwrap(o_flight) \notin DOMAIN db
              /\ DOMAIN db' = DOMAIN db \cup {unwrap(o_flight)}
              /\ db'[unwrap(o_flight)] = unwrap(o_ret').val
       /\ (o_pc' = "panic" \/ (o_ret' # o_ret /\ ~unwrap(o_ret').ok)) => db' = db
       /\ (n_calls' = n_calls + 1 /\ unwrap(o_flight') \in DOMAIN db) =>
              /\ db' = db
              /\ ext_queries' = ext_queries
       /\ (n_calls' = n_calls + 1 /\ unwrap(o_flight') \notin DOMAIN db) =>
              /\ o_pc' = "awaiting"
              /\ ext_queries' = Bump(ext_queries, unwrap(o_flight'))]_vars

\* C36 witness: a call for a Flight failed and left db empty, a second call
\* for it queried again and stored its Quote, and a third call was a hit that
\* left the entry as it was
C36_Witness ==
    /\ n_calls = 3
    /\ o_pc = "idle"
    /\ is_some(o_flight)
    /\ ext_queries[unwrap(o_flight)] = 2
    /\ DOMAIN db = {unwrap(o_flight)}
    /\ o_sent = <<>>
    /\ o_ret = Some(Ok(db[unwrap(o_flight)]))

\* The external requests sent and not yet answered
InFlight == Len(o_sent) - Len(o_answers)

\* The external requests in flight for the cache key f
InFlightFor(f) == IF o_flight = Some(f) THEN InFlight ELSE 0

\* C37: the solve is strictly sequential.  Whenever the search loop is at a
\* pop, expand_node has no candidate left to price and no oracle call is
\* running; a step that pops finds the previous cycle complete; at most one
\* external request is in flight at any time, and so at most one per cache key.
C37_Sequential ==
    /\ [](/\ InFlight \in {0, 1}
          /\ (o_pc = "awaiting") <=> (InFlight = 1)
          /\ \A i \in 1 .. Len(pending) : InFlightFor(pending[i].flight) <= 1
          /\ pc = "search" => (pending = <<>> /\ o_pc = "idle" /\ InFlight = 0))
    /\ [][(\E n \in BagToSet(main_queue) : Popped(n)) =>
              (pending = <<>> /\ o_pc = "idle" /\ InFlight = 0)]_vars

\* C37 witness: in a cycle after the first, with a Quote cached already, the
\* request for one candidate is out for the second time while another
\* candidate waits its turn
C37_Witness ==
    /\ pc = "expand"
    /\ o_pc = "awaiting"
    /\ InFlight = 1
    /\ Len(o_sent) = 2
    /\ Len(pending) >= 2
    /\ o_flight = Some(pending[1].flight)
    /\ is_some(top) /\ is_some(unwrap(top).prev)
    /\ DOMAIN db # {}

\* C38: html_list and list_item_vals both have curr_count entries and the row
\* at index i has id i; RemoveChild(idx) clears the flag of row idx and leaves
\* every other row, every stored value and the count as they were;
\* ChildUpdate(idx, vals) of any row ever added is in bounds and replaces the
\* values of row idx only.
C38_RowListShape ==
    /\ [](/\ Len(html_list) = curr_count
          /\ Len(list_item_vals) = curr_count
          /\ \A i \in 1 .. Len(html_list) : html_list[i].key = i - 1)
    /\ [][LET m == unwrap(msg')
          IN  /\ m.type = "RemoveChild" =>
                     /\ html_list' = [html_list EXCEPT ![m.idx + 1].on = FALSE]
                     /\ UNCHANGED <<list_item_vals, curr_count, l_pc>>
              /\ m.type = "ChildUpdate" =>
                     /\ m.idx < curr_count
                     /\ l_pc' = "idle"
                     /\ list_item_vals' = [list_item_vals EXCEPT ![m.idx + 1] = m.vals]
                     /\ UNCHANGED <<html_list, curr_count>>]_vars

\* C38 witness: of three rows the middle one has been removed, and the last
\* one has had its values updated afterwards
C38_Witness ==
    /\ curr_count = 3
    /\ ~html_list[2].on
    /\ html_list[1].on /\ html_list[3].on
    /\ list_item_vals[3] # DefaultVals
    /\ list_item_vals[2] = DefaultVals
    /\ msg = Some([type |-> "ChildUpdate", idx |-> 2, vals |-> list_item_vals[3]])

\* C39: SendPost is handled without a panic in every reachable state of the
\* row list, a state with no active row included, and the text it formats is
\* one line per active row, in row order.
C39_SendPostNeverPanics ==
    /\ l_pc # "panic"
    /\ (is_some(msg) /\ unwrap(msg).type = "SendPost") =>
           LET m == unwrap(msg)
               rows == SelectSeq([i \in 1 .. Len(html_list) |-> i],
                                 LAMBDA i : html_list[i].on)
           IN  /\ is_some(m.text)
               /\ Len(SelectSeq(unwrap(m.text), LAMBDA piece : piece = "\n")) = Len(rows) - 1

=============================================================================
